---- MODULE Spec2Model ----
(***************************************************************************)
(* Model of the decision and reconciliation engine of the tweet curator:   *)
(*   - DatabaseClient.toggle_favorite / toggle_mute   (src/src/database.py) *)
(*   - DailyCurator.__init__ thresholds, _deduplicate_tweets,               *)
(*     run_daily_curation, feedback_handler          (src/src/scheduler.py) *)
(*   - ClaudeFilter.filter_tweets               (src/src/claude_filter.py)  *)
(*   - TelegramCurator._handle_feedback          (src/src/telegram_bot.py)  *)
(***************************************************************************)
EXTENDS Integers, Sequences, FiniteSets, TLC

(***************************************************************************)
(* Python None / SQL NULL and optional values.                             *)
(***************************************************************************)
None == << >>

Some(x) == << x >>

Val(o) == o[1]

(* dict.get(key, default) on a dict modelled as a function *)
Get(d, key, default) == IF key \in DOMAIN d THEN d[key] ELSE default

SeqToSet(s) == { s[i] : i \in DOMAIN s }

EmptyMap == [ x \in { } |-> None ]

Put(f, k, v) == [ x \in DOMAIN f \cup { k } |-> IF x = k THEN v ELSE f[x] ]

RemoveKey(f, k) == [ x \in DOMAIN f \ { k } |-> f[x] ]

RECURSIVE SelectIds(_, _)
(* list comprehension [x for x in s if x in keep], order preserved *)
SelectIds(s, keep) ==
    IF s = << >> THEN << >>
    ELSE IF Head(s) \in keep
         THEN << Head(s) >> \o SelectIds(Tail(s), keep)
         ELSE SelectIds(Tail(s), keep)

(***************************************************************************)
(* User names.  A name is a sequence of characters, so that                *)
(* username.lower().lstrip("@") is computed and not assumed.               *)
(***************************************************************************)
LowerChar(c) ==
    CASE c = "A" -> "a"
      [] c = "B" -> "b"
      [] OTHER   -> c

Lower(s) == [ i \in DOMAIN s |-> LowerChar(s[i]) ]

RECURSIVE LStripAt(_)
LStripAt(s) ==
    IF s # << >> /\ Head(s) = "@" THEN LStripAt(Tail(s)) ELSE s

(* database.py: username = username.lower().lstrip("@") *)
NormalizeUsername(s) == LStripAt(Lower(s))

(* the user names the channel can hand to the toggles *)
RawUsernames ==
    { << "a" >>, << "A" >>, << "@", "a" >>, << "@", "A" >>,
      << "b" >>, << "@", "B" >> }

Handles == { NormalizeUsername(u) : u \in RawUsernames }

(***************************************************************************)
(* Bounds                                                                  *)
(***************************************************************************)
MaxOffsetSteps == 4

MaxTasks == 2

MaxFetch == 2

MaxRuns == 2

MaxQueries == 2

(***************************************************************************)
(* State                                                                   *)
(***************************************************************************)
VARIABLES
    settings,          \* config/settings.py Settings (threshold fields)
    curator,           \* DailyCurator threshold attributes set by __init__
    probe,             \* outcome of scoring and deciding a one-item batch
    favorite_authors,  \* store table favorite_authors (set of usernames)
    muted_authors,     \* store table muted_authors (set of usernames)
    toggle,            \* the last toggle_* call and what it returned
    prev_toggle,       \* the toggle_* call before it
    pending_feedback,  \* TelegramCurator._pending_feedback: tweet_id -> entry
    tasks,             \* the delayed-save tasks created so far, by creation order
    feedback,          \* store table feedback (rows in insertion order)
    reply_markup,      \* the inline keyboard shown under each tweet's message
    handler,           \* the _handle_feedback call in progress, if any
    ab_test_config,    \* DailyCurator.ab_test_config
    rag_config,        \* DailyCurator.rag_enabled and the embedding manager
    tweets_table,      \* store table tweets: tweet_id -> row
    experiment_scores, \* store table of the A/B experiment scores
    channel,           \* the tweet messages the delivery channel accepted
    run,               \* run_daily_curation: position and local variables
    tweet_dicts,                \* the tweet dicts of the run, by tweet_id
    stats,             \* the stats dict of the run
    primary,           \* the tweet dicts as the primary scoring call left them
    suspended,         \* the earlier run task that waits inside its digest send
    inflight,          \* the toggle calls of the two channels, between read and write
    embeddings_table   \* store table of the embeddings: the ids that have one

vars == << settings, curator, probe, favorite_authors, muted_authors,
           toggle, prev_toggle, pending_feedback, tasks, feedback,
           reply_markup, handler, ab_test_config, rag_config,
           tweets_table, experiment_scores, channel, run, tweet_dicts, stats, primary,
           suspended, embeddings_table, inflight >>

thresholdVars == << settings, curator, probe >>

tierVars == << favorite_authors, muted_authors, toggle, prev_toggle, inflight >>

feedbackVars == << pending_feedback, tasks, feedback, reply_markup, handler,
                  embeddings_table >>

runVars == << ab_test_config, rag_config, tweets_table, experiment_scores,
              channel, run, tweet_dicts, stats, primary, suspended >>

(***************************************************************************)
(* DailyCurator.__init__ : the three tier thresholds and the floor         *)
(***************************************************************************)
DefaultFilterThreshold == 70

DefaultFavoriteOffset == 20

DefaultMutedOffset == 15

DefaultSettings ==
    [ filter_threshold          |-> DefaultFilterThreshold,
      favorite_threshold_offset |-> DefaultFavoriteOffset,
      muted_threshold_offset    |-> DefaultMutedOffset ]

(* slip: the scorer keeps the default threshold as its floor *)
DailyCuratorInit_FloorDefault(s) ==
    [ default_threshold         |-> s.filter_threshold,
      favorite_author_threshold |-> s.filter_threshold - s.favorite_threshold_offset,
      muted_author_threshold    |-> s.filter_threshold + s.muted_threshold_offset,
      filter_threshold          |-> s.filter_threshold ]

(* slip: the favorite offset added instead of subtracted *)
DailyCuratorInit_FavoriteRaised(s) ==
    LET fav == s.filter_threshold + s.favorite_threshold_offset
    IN  [ default_threshold         |-> s.filter_threshold,
          favorite_author_threshold |-> fav,
          muted_author_threshold    |-> s.filter_threshold + s.muted_threshold_offset,
          filter_threshold          |-> fav ]

DailyCuratorInit(s) ==
    LET fav == s.filter_threshold - s.favorite_threshold_offset
    IN  [ default_threshold         |-> s.filter_threshold,
          favorite_author_threshold |-> fav,
          muted_author_threshold    |-> s.filter_threshold + s.muted_threshold_offset,
          filter_threshold          |-> fav ]

(***************************************************************************)
(* ClaudeFilter.filter_tweets, from the parsed scores on.                  *)
(* tw maps a tweet id to the tweet dict (a function on its keys); the      *)
(* dicts are enriched in place, so the operator returns the new map.       *)
(* scores is the list of {tweet_id, score, reason} _parse_response gave.   *)
(***************************************************************************)
NotScoredReason == "Not scored by Claude"

RECURSIVE ScoreMap(_)
(* {s["tweet_id"]: s for s in scores} : the last entry for an id wins *)
ScoreMap(scores) ==
    IF scores = << >> THEN << >>
    ELSE LET last == scores[Len(scores)]
             rest == ScoreMap(SubSeq(scores, 1, Len(scores) - 1))
         IN  [ k \in DOMAIN rest \cup { last.tweet_id } |->
                 IF k = last.tweet_id THEN last ELSE rest[k] ]

(* filter_tweets leaving a tweet the scorer did not answer for untouched *)
FilterTweetsEnrich_SkipUnscored(tw, batch, threshold, scores) ==
    LET score_map == ScoreMap(scores)
        enrich(t) ==
            IF t.tweet_id \in DOMAIN score_map
            THEN [ k \in DOMAIN t \cup { "filter_score", "filter_reason", "filtered" } |->
                     CASE k = "filter_score"  -> score_map[t.tweet_id].score
                       [] k = "filter_reason" -> score_map[t.tweet_id].reason
                       [] k = "filtered"      -> score_map[t.tweet_id].score >= threshold
                       [] OTHER               -> t[k] ]
            ELSE t
    IN  [ id \in DOMAIN tw |->
            IF id \in SeqToSet(batch) THEN enrich(tw[id]) ELSE tw[id] ]

FilterTweetsEnrich(tw, batch, threshold, scores) ==
    LET score_map == ScoreMap(scores)
        enrich(t) ==
            IF t.tweet_id \in DOMAIN score_map
            THEN [ k \in DOMAIN t \cup { "filter_score", "filter_reason", "filtered" } |->
                     CASE k = "filter_score"  -> score_map[t.tweet_id].score
                       [] k = "filter_reason" -> score_map[t.tweet_id].reason
                       [] k = "filtered"      -> score_map[t.tweet_id].score >= threshold
                       [] OTHER               -> t[k] ]
            ELSE [ k \in DOMAIN t \cup { "filter_score", "filter_reason", "filtered" } |->
                     CASE k = "filter_score"  -> 0
                       [] k = "filter_reason" -> NotScoredReason
                       [] k = "filtered"      -> FALSE
                       [] OTHER               -> t[k] ]
    IN  [ id \in DOMAIN tw |->
            IF id \in SeqToSet(batch) THEN enrich(tw[id]) ELSE tw[id] ]

(* the list filter_tweets returns: the tweets at or above the threshold *)
FilterTweetsReturn(tw, batch) ==
    SelectIds(batch, { id \in DOMAIN tw : Get(tw[id], "filtered", FALSE) })

(***************************************************************************)
(* run_daily_curation, step 2b: per-author thresholds                      *)
(***************************************************************************)
TierOf(author, muted, favorites) ==
    IF author \in muted THEN "muted"
    ELSE IF author \in favorites THEN "favorite"
    ELSE "default"

TierThreshold(c, tier) ==
    CASE tier = "muted"    -> c.muted_author_threshold
      [] tier = "favorite" -> c.favorite_author_threshold
      [] OTHER             -> c.default_threshold

(* slip: the score must exceed the threshold *)
Passed_Strict(c, t, muted, favorites) ==
    LET author    == Lower(t.author_username)
        score     == Get(t, "filter_score", 0)
        threshold == TierThreshold(c, TierOf(author, muted, favorites))
    IN  score > threshold

Passed(c, t, muted, favorites) ==
    LET author    == Lower(t.author_username)
        score     == Get(t, "filter_score", 0)
        threshold == TierThreshold(c, TierOf(author, muted, favorites))
    IN  score >= threshold

(* slip: the flag of the floor decision is left as it is *)
ApplyTiers_FloorFlag(c, tw, scored, muted, favorites) == tw

(* tweet["filtered"] = passed, for every tweet of scored_tweets *)
ApplyTiers(c, tw, scored, muted, favorites) ==
    [ id \in DOMAIN tw |->
        IF id \in SeqToSet(scored)
        THEN [ k \in DOMAIN tw[id] \cup { "filtered" } |->
                 IF k = "filtered" THEN Passed(c, tw[id], muted, favorites)
                 ELSE tw[id][k] ]
        ELSE tw[id] ]

(* filtered_tweets: the passing tweets, in the order of scored_tweets *)
FilteredTweets(c, tw, scored, muted, favorites) ==
    SelectIds(scored, { id \in DOMAIN tw : Passed(c, tw[id], muted, favorites) })

TierCounts(tw, scored, muted, favorites) ==
    [ tier \in { "favorite", "muted", "default" } |->
        Cardinality({ i \in DOMAIN scored :
            TierOf(Lower(tw[scored[i]].author_username), muted, favorites) = tier }) ]

(***************************************************************************)
(* Thresholds specification: every configuration of the three settings,    *)
(* and a one-item batch scored at the floor and decided by tier.           *)
(***************************************************************************)
BaseThresholds == { 50, DefaultFilterThreshold }

Offsets ==
    { 5 * k : k \in (0 - MaxOffsetSteps) .. MaxOffsetSteps }
      \cup { DefaultFavoriteOffset, DefaultMutedOffset }

ProbeScores == { 5 * k : k \in 0 .. 20 }

Tiers == { "favorite", "default", "muted" }

NoProbe == [ done |-> FALSE ]

ProbeAuthor == << "A" >>

(* the tier sets that put the probe's author in the given tier *)
ProbeMuted(tier) == IF tier = "muted" THEN { Lower(ProbeAuthor) } ELSE { }

ProbeFavorites(tier) == IF tier = "favorite" THEN { Lower(ProbeAuthor) } ELSE { }

ProbeItem(score, tier) ==
    /\ ~ probe.done
    /\ LET tw0    == [ id \in { "p" } |->
                        [ tweet_id |-> "p", author_username |-> ProbeAuthor ] ]
           batch  == << "p" >>
           tw1    == FilterTweetsEnrich(tw0, batch, curator.filter_threshold,
                        << [ tweet_id |-> "p", score |-> score, reason |-> "ok" ] >>)
           scored == FilterTweetsReturn(tw1, batch)
           passing == FilteredTweets(curator, tw1, scored,
                                     ProbeMuted(tier), ProbeFavorites(tier))
       IN  probe' = [ done      |-> TRUE,
                      score     |-> score,
                      tier      |-> tier,
                      threshold |-> TierThreshold(curator, tier),
                      in_scored |-> scored # << >>,
                      passed    |-> passing # << >> ]
    /\ UNCHANGED << settings, curator, tierVars, feedbackVars, runVars >>

ResetProbe ==
    /\ probe.done
    /\ probe' = NoProbe
    /\ UNCHANGED << settings, curator, tierVars, feedbackVars, runVars >>

(***************************************************************************)
(* Feedback reconciliation: TelegramCurator._handle_feedback and the       *)
(* delayed-save tasks it creates.  Handlers run one update at a time       *)
(* (Application is built without concurrent updates); a task runs between  *)
(* handlers and at every await of a handler.                               *)
(***************************************************************************)
FeedbackItems == { "t1", "t2" }

(* query.message.message_id of the message that carries the item *)
MessageId(t) == IF t = "t1" THEN 101 ELSE 102

(* callback data "reason:{tweet_id}:{vote}:{reason_code}" *)
ReasonChoices ==
    { [ vote |-> "up", code |-> "tech" ],
      [ vote |-> "down", code |-> "other" ] }

(* callback data "like_reason:{tweet_id}:{reason_code}" *)
LikeReasonCodes == { "tech" }

(* reason_labels.get(reason_code, reason_code) *)
ReasonLabel(code) ==
    CASE code = "tech"    -> "Tech content"
      [] code = "no_tech" -> "No tech content"
      [] OTHER            -> code

Idle == [ pc |-> "idle" ]

(* the task created last for an item, 0 if there is none *)
NewestTask(ts, t) ==
    LET ks == { k \in DOMAIN ts : ts[k].tweet_id = t }
    IN  IF ks = { } THEN 0 ELSE CHOOSE k \in ks : \A j \in ks : j <= k

Live(task) == task.state \in { "sleeping", "editing" }

(* slip: the handle is dropped without cancelling the task *)
CancelTask_Forgotten(ts, k) == ts

(* slip: every running task is cancelled, not only the one of the handle *)
CancelTask_All(ts, k) ==
    [ j \in DOMAIN ts |->
        [ ts[j] EXCEPT !.state = IF Live(ts[j]) THEN "cancelled" ELSE @ ] ]

(* asyncio Task.cancel(): a task suspended at an await (the sleep, or the  *)
(* edit of the reply markup) ends there with CancelledError, which         *)
(* "except Exception" does not catch; a finished task is not affected.     *)
CancelTask(ts, k) ==
    [ ts EXCEPT ![k].state = IF Live(ts[k]) THEN "cancelled" ELSE @ ]

(* DatabaseClient.save_feedback: ValueError for a vote other than up/down, *)
(* else the insert, which raises when the store fails.                     *)
SaveFeedbackRaises(vote, insert_ok) ==
    vote \notin { "up", "down" } \/ ~ insert_ok

SaveFeedback(table, tweet_id, vote, telegram_message_id, notes) ==
    Append(table, [ tweet_id            |-> tweet_id,
                    user_vote           |-> vote,
                    telegram_message_id |-> telegram_message_id,
                    notes               |-> notes ])

(* scheduler.feedback_handler: the vote write; its failure is logged and   *)
(* the handler returns normally.                                           *)
FeedbackHandler(table, tweet_id, vote, telegram_message_id, notes, insert_ok) ==
    IF SaveFeedbackRaises(vote, insert_ok) THEN table
    ELSE SaveFeedback(table, tweet_id, vote, telegram_message_id, notes)

(* embedding_manager and embedding_manager.enabled *)
ManagerEnabled(config) == config.embedding_manager = "enabled"

(* DatabaseClient.has_embedding: whether the store has an embedding for    *)
(* the tweet                                                               *)
HasEmbedding(table, tweet_id) == tweet_id \in table

(* DatabaseClient.save_embedding: upsert of the tweet's embedding *)
SaveEmbedding(table, tweet_id) == table \cup { tweet_id }

(* how the calls of the embedding block can end: the first of them that    *)
(* raises, the tweet missing or without text, the provider returning an    *)
(* empty vector, or the embedding written                                  *)
EmbedOutcomes ==
    { "has_embedding_raises", "get_tweet_raises", "no_text",
      "generate_raises", "generate_empty", "save_raises", "saved" }

(* no call of the embedding block is made without an enabled provider *)
PossibleEmbedOutcomes(config) ==
    IF ManagerEnabled(config) THEN EmbedOutcomes ELSE { "saved" }

(* the commit history of a task that has not called the feedback callback *)
NotCommitted ==
    [ step |-> "not_committed", had |-> FALSE, generated |-> FALSE,
      written |-> FALSE, failure |-> "none", raised |-> FALSE ]

(* slip: the existence check is skipped *)
EmbedVotedTweet_Unchecked(table, tweet_id, outcome) ==
    LET result(generated, written, failure) ==
            [ embeddings |-> IF written THEN SaveEmbedding(table, tweet_id) ELSE table,
              had        |-> HasEmbedding(table, tweet_id),
              generated  |-> generated,
              written    |-> written,
              failure    |-> failure ]
    IN  CASE outcome = "has_embedding_raises" -> result(FALSE, FALSE, "has_embedding")
          [] outcome = "get_tweet_raises"     -> result(FALSE, FALSE, "get_tweet_by_id")
          [] outcome = "no_text"              -> result(FALSE, FALSE, "none")
          [] outcome = "generate_raises"      -> result(TRUE, FALSE, "generate_embedding")
          [] outcome = "generate_empty"       -> result(TRUE, FALSE, "none")
          [] outcome = "save_raises"          -> result(TRUE, FALSE, "save_embedding")
          [] OTHER                            -> result(TRUE, TRUE, "none")

(* the body of the try block of the embedding part: has_embedding, then    *)
(* get_tweet_by_id, generate_embedding and save_embedding; generated says  *)
(* whether generate_embedding was called, written whether save_embedding   *)
(* returned.                                                               *)
EmbedVotedTweet(table, tweet_id, outcome) ==
    LET result(generated, written, failure) ==
            [ embeddings |-> IF written THEN SaveEmbedding(table, tweet_id) ELSE table,
              had        |-> HasEmbedding(table, tweet_id),
              generated  |-> generated,
              written    |-> written,
              failure    |-> failure ]
    IN  CASE outcome = "has_embedding_raises" -> result(FALSE, FALSE, "has_embedding")
          [] HasEmbedding(table, tweet_id)    -> result(FALSE, FALSE, "none")
          [] outcome = "get_tweet_raises"     -> result(FALSE, FALSE, "get_tweet_by_id")
          [] outcome = "no_text"              -> result(FALSE, FALSE, "none")
          [] outcome = "generate_raises"      -> result(TRUE, FALSE, "generate_embedding")
          [] outcome = "generate_empty"       -> result(TRUE, FALSE, "none")
          [] outcome = "save_raises"          -> result(TRUE, FALSE, "save_embedding")
          [] OTHER                            -> result(TRUE, TRUE, "none")

(* slip: only the failures of the store calls are caught *)
EmbedCatches_StoreOnly(failure) == failure # "generate_embedding"

(* except Exception around the embedding part *)
EmbedCatches(failure) == TRUE

(* slip: the handler goes on to the embedding part after a failed write *)
FeedbackCommit_NoReturn(votes, table, task, config, insert_ok, outcome) ==
    LET vote_failed == SaveFeedbackRaises(task.vote, insert_ok)
        saved == FeedbackHandler(votes, task.tweet_id, task.vote, task.message_id,
                                 task.reason, insert_ok)
    IN  IF ~ ManagerEnabled(config)
        THEN [ feedback |-> saved, embeddings |-> table,
               embed |-> [ NotCommitted EXCEPT
                  !.step = IF vote_failed THEN "vote_failed" ELSE "no_provider" ] ]
        ELSE LET e == EmbedVotedTweet(table, task.tweet_id, outcome)
             IN  [ feedback |-> saved, embeddings |-> e.embeddings,
                   embed |-> [ step      |-> IF vote_failed THEN "vote_failed"
                                             ELSE "embedding",
                               had       |-> e.had,
                               generated |-> e.generated,
                               written   |-> e.written,
                               failure   |-> e.failure,
                               raised    |-> e.failure # "none"
                                             /\ ~ EmbedCatches(e.failure) ] ]

(* scheduler.feedback_handler as a whole: the vote write, the return after *)
(* its failure, then the embedding part under an enabled provider.  The    *)
(* result holds the two store tables and what the call did.                *)
FeedbackCommit(votes, table, task, config, insert_ok, outcome) ==
    LET vote_failed == SaveFeedbackRaises(task.vote, insert_ok)
        saved == FeedbackHandler(votes, task.tweet_id, task.vote, task.message_id,
                                 task.reason, insert_ok)
    IN  IF vote_failed
        THEN [ feedback |-> saved, embeddings |-> table,
               embed |-> [ NotCommitted EXCEPT !.step = "vote_failed" ] ]
        ELSE IF ~ ManagerEnabled(config)
        THEN [ feedback |-> saved, embeddings |-> table,
               embed |-> [ NotCommitted EXCEPT !.step = "no_provider" ] ]
        ELSE LET e == EmbedVotedTweet(table, task.tweet_id, outcome)
             IN  [ feedback |-> saved, embeddings |-> e.embeddings,
                   embed |-> [ step      |-> "embedding",
                               had       |-> e.had,
                               generated |-> e.generated,
                               written   |-> e.written,
                               failure   |-> e.failure,
                               raised    |-> e.failure # "none"
                                             /\ ~ EmbedCatches(e.failure) ] ]

(* "vote:{tweet_id}:{up|down}": the reason buttons replace the controls *)
VotePressed(t, vote, edit_ok) ==
    /\ handler = Idle
    /\ reply_markup' =
         IF edit_ok
         THEN [ reply_markup EXCEPT ![t] =
                  IF vote = "up" THEN "up_reasons" ELSE "down_reasons" ]
         ELSE reply_markup
    /\ UNCHANGED << pending_feedback, tasks, feedback, handler >>
    /\ UNCHANGED << thresholdVars, tierVars, runVars, embeddings_table >>

(* slip: the pending save of the tweet is not cancelled *)
ReasonBegin_NoCancel(kind, t, vote, code) ==
    /\ handler = Idle
    /\ Len(tasks) < MaxTasks
    /\ handler' = [ pc         |-> "reason_edit",
                    kind       |-> kind,
                    tweet_id   |-> t,
                    vote       |-> vote,
                    reason     |-> ReasonLabel(code),
                    message_id |-> MessageId(t) ]
    /\ UNCHANGED << pending_feedback, tasks, feedback, reply_markup >>
    /\ UNCHANGED << thresholdVars, tierVars, runVars, embeddings_table >>

(* "reason:..." and "like_reason:..." up to the await of the markup edit:  *)
(* any pending save for the tweet is cancelled, the entry stays.           *)
ReasonBegin(kind, t, vote, code) ==
    /\ handler = Idle
    /\ Len(tasks) < MaxTasks
    /\ tasks' = IF t \in DOMAIN pending_feedback
                THEN CancelTask(tasks, pending_feedback[t].task)
                ELSE tasks
    /\ handler' = [ pc         |-> "reason_edit",
                    kind       |-> kind,
                    tweet_id   |-> t,
                    vote       |-> vote,
                    reason     |-> ReasonLabel(code),
                    message_id |-> MessageId(t) ]
    /\ UNCHANGED << pending_feedback, feedback, reply_markup >>
    /\ UNCHANGED << thresholdVars, tierVars, runVars, embeddings_table >>

Reason(t, choice) == ReasonBegin("vote", t, choice.vote, choice.code)

LikeReason(t, code) == ReasonBegin("like", t, "up", code)

(* the markup edit returns: the confirmation with the undo button is       *)
(* shown, the save task is created and registered; or the edit raises and  *)
(* the handler ends there.                                                 *)
ReasonEdit(edit_ok) ==
    /\ handler.pc = "reason_edit"
    /\ IF edit_ok
       THEN /\ reply_markup' = [ reply_markup EXCEPT ![handler.tweet_id] =
                                   "confirm_undo" ]
            /\ tasks' = Append(tasks,
                 [ tweet_id   |-> handler.tweet_id,
                   vote       |-> handler.vote,
                   reason     |-> handler.reason,
                   message_id |-> handler.message_id,
                   state      |-> "sleeping",
                   recorded   |-> "no",
                   undone     |-> "no",
                   embed      |-> NotCommitted ])
            /\ pending_feedback' = Put(pending_feedback, handler.tweet_id,
                 [ task |-> Len(tasks) + 1, message_id |-> handler.message_id ])
       ELSE UNCHANGED << reply_markup, tasks, pending_feedback >>
    /\ handler' = Idle
    /\ UNCHANGED << feedback >>
    /\ UNCHANGED << thresholdVars, tierVars, runVars, embeddings_table >>

(* _save_after_delay / _save_like_after_delay after the sleep: return if   *)
(* the tweet has no pending entry, else call the feedback callback and     *)
(* suspend in the edit that removes the undo button.                       *)
SaveAfterDelay(k, insert_ok, outcome) ==
    /\ k \in DOMAIN tasks
    /\ tasks[k].state = "sleeping"
    /\ LET task == tasks[k]
           superseded ==
               \/ NewestTask(tasks, task.tweet_id) # k
               \/ (handler.pc = "reason_edit" /\ handler.tweet_id = task.tweet_id)
           commit == FeedbackCommit(feedback, embeddings_table, task, rag_config,
                                    insert_ok, outcome)
       IN  IF task.tweet_id \notin DOMAIN pending_feedback
           THEN /\ tasks' = [ tasks EXCEPT ![k].state = "done" ]
                /\ feedback' = feedback
                /\ embeddings_table' = embeddings_table
           ELSE /\ feedback' = commit.feedback
                /\ embeddings_table' = commit.embeddings
                /\ tasks' = [ tasks EXCEPT
                     ![k].state = "editing",
                     ![k].embed = commit.embed,
                     ![k].recorded =
                        IF SaveFeedbackRaises(task.vote, insert_ok) THEN "no"
                        ELSE IF superseded THEN "superseded" ELSE "newest" ]
    /\ UNCHANGED << pending_feedback, reply_markup, handler >>
    /\ UNCHANGED << thresholdVars, tierVars, runVars >>

(* the edit that removes the undo button returns or raises (swallowed),    *)
(* then the pending entry of the tweet is popped.                          *)
SaveAfterDelayFinish(k, edit_ok) ==
    /\ k \in DOMAIN tasks
    /\ tasks[k].state = "editing"
    /\ reply_markup' =
         IF edit_ok THEN [ reply_markup EXCEPT ![tasks[k].tweet_id] = "voted" ]
         ELSE reply_markup
    /\ pending_feedback' = RemoveKey(pending_feedback, tasks[k].tweet_id)
    /\ tasks' = [ tasks EXCEPT ![k].state = "done" ]
    /\ UNCHANGED << feedback, handler >>
    /\ UNCHANGED << thresholdVars, tierVars, runVars, embeddings_table >>

(* "undo:{tweet_id}" and "like_undo:{tweet_id}" up to the markup edit *)
UndoBegin(kind, t) ==
    /\ handler = Idle
    /\ IF t \notin DOMAIN pending_feedback
       THEN UNCHANGED << pending_feedback, tasks, handler >>
       ELSE LET k == pending_feedback[t].task
            IN  /\ tasks' = CancelTask(
                      [ tasks EXCEPT ![k].undone =
                          IF tasks[k].state = "sleeping" THEN "in_time"
                          ELSE IF tasks[k].state = "editing" THEN "late"
                          ELSE @ ], k)
                /\ pending_feedback' = RemoveKey(pending_feedback, t)
                /\ handler' = [ pc |-> "undo_edit", kind |-> kind,
                                tweet_id |-> t ]
    /\ UNCHANGED << feedback, reply_markup >>
    /\ UNCHANGED << thresholdVars, tierVars, runVars, embeddings_table >>

Undo(t) == UndoBegin("vote", t)

LikeUndo(t) == UndoBegin("like", t)

(* the edit that restores the original controls returns or raises *)
UndoEdit(edit_ok) ==
    /\ handler.pc = "undo_edit"
    /\ reply_markup' =
         IF edit_ok
         THEN [ reply_markup EXCEPT ![handler.tweet_id] =
                  IF handler.kind = "like" THEN "like_reasons" ELSE "tweet_buttons" ]
         ELSE reply_markup
    /\ handler' = Idle
    /\ UNCHANGED << pending_feedback, tasks, feedback >>
    /\ UNCHANGED << thresholdVars, tierVars, runVars, embeddings_table >>

FeedbackInit ==
    /\ pending_feedback = EmptyMap
    /\ tasks = << >>
    /\ feedback = << >>
    /\ reply_markup = [ t \in FeedbackItems |-> "tweet_buttons" ]
    /\ handler = Idle
    /\ embeddings_table = { }

NoToggle == [ op |-> "none" ]

(* the two channels that can call the toggles of the same store *)
Channels == { 1, 2 }

NoCall == [ pc |-> "idle" ]

NoCalls == [ start |-> None, calls |-> [ c \in Channels |-> NoCall ] ]

TierInit ==
    /\ favorite_authors = { }
    /\ muted_authors = { }
    /\ toggle = NoToggle
    /\ prev_toggle = NoToggle
    /\ inflight = NoCalls

(***************************************************************************)
(* DatabaseClient.is_muted_author / is_favorite_author: a failed store     *)
(* query is logged and answered False.                                     *)
(***************************************************************************)
IsMutedAuthor(username, query_ok) ==
    IF query_ok THEN NormalizeUsername(username) \in muted_authors ELSE FALSE

IsFavoriteAuthor(username, query_ok) ==
    IF query_ok THEN NormalizeUsername(username) \in favorite_authors ELSE FALSE

(***************************************************************************)
(* DatabaseClient.toggle_favorite.  query_ok / write_ok are the outcomes   *)
(* of the store calls it makes; a failed write re-raises ("raised").       *)
(***************************************************************************)
ToggleFavorite(raw, query_ok, write_ok) ==
    LET username == NormalizeUsername(raw)
        is_muted == IsMutedAuthor(username, query_ok)
        result   == IF ~ write_ok THEN "raised"
                    ELSE IF is_muted THEN "unmuted" ELSE "favorited"
    IN  /\ muted_authors' =
              IF is_muted /\ write_ok
              THEN muted_authors \ { NormalizeUsername(username) }
              ELSE muted_authors
        /\ favorite_authors' =
              IF ~ is_muted /\ write_ok
              THEN favorite_authors \cup { NormalizeUsername(username) }
              ELSE favorite_authors
        /\ toggle' = [ op           |-> "toggle_favorite",
                       raw          |-> raw,
                       username     |-> username,
                       pre_favorite |-> favorite_authors,
                       pre_muted    |-> muted_authors,
                       result       |-> result ]
        /\ prev_toggle' = IF toggle.op = "none" THEN toggle
                          ELSE [ op |-> toggle.op, username |-> toggle.username,
                                 result |-> toggle.result ]
        /\ UNCHANGED << thresholdVars, feedbackVars, runVars, inflight >>

(* DatabaseClient.toggle_mute *)
ToggleMute(raw, query_ok, write_ok) ==
    LET username    == NormalizeUsername(raw)
        is_favorite == IsFavoriteAuthor(username, query_ok)
        result      == IF ~ write_ok THEN "raised"
                       ELSE IF is_favorite THEN "unfavorited" ELSE "muted"
    IN  /\ favorite_authors' =
              IF is_favorite /\ write_ok
              THEN favorite_authors \ { NormalizeUsername(username) }
              ELSE favorite_authors
        /\ muted_authors' =
              IF ~ is_favorite /\ write_ok
              THEN muted_authors \cup { NormalizeUsername(username) }
              ELSE muted_authors
        /\ toggle' = [ op           |-> "toggle_mute",
                       raw          |-> raw,
                       username     |-> username,
                       pre_favorite |-> favorite_authors,
                       pre_muted    |-> muted_authors,
                       result       |-> result ]
        /\ prev_toggle' = IF toggle.op = "none" THEN toggle
                          ELSE [ op |-> toggle.op, username |-> toggle.username,
                                 result |-> toggle.result ]
        /\ UNCHANGED << thresholdVars, feedbackVars, runVars, inflight >>

(***************************************************************************)
(* DailyCurator.run_daily_curation, one action per step of the workflow.   *)
(* The tweets the two sources can return are those of Catalog; a fetch is  *)
(* a list of distinct tweet ids.                                           *)
(***************************************************************************)
TweetIds == { "1", "2", "3" }

Catalog ==
    [ id \in TweetIds |->
        [ tweet_id        |-> id,
          author_username |-> IF id = "1" THEN << "A" >> ELSE << "b" >>,
          is_retweet      |-> id = "3" ] ]

RECURSIVE Fetches(_)
Fetches(n) ==
    IF n = 0 THEN { << >> }
    ELSE LET shorter == Fetches(n - 1)
         IN  shorter \cup
             UNION { { Append(s, id) : id \in TweetIds \ SeqToSet(s) } :
                     s \in { x \in shorter : Len(x) = n - 1 } }

(* the scores the scorer can give *)
ScoreValues == { 45, 65, 85 }

RECURSIVE AnswerOf(_, _)
(* the parsed answer: one entry per tweet of the batch the scorer scored *)
AnswerOf(batch, f) ==
    IF batch = << >> THEN << >>
    ELSE IF f[Head(batch)] = None THEN AnswerOf(Tail(batch), f)
    ELSE << [ tweet_id |-> Head(batch), score |-> Val(f[Head(batch)]),
              reason   |-> "r" ] >> \o AnswerOf(Tail(batch), f)

Answers(batch, values) ==
    { AnswerOf(batch, f) :
        f \in [ SeqToSet(batch) -> { None } \cup { Some(v) : v \in values } ] }

(* what the challenger prompt can answer: nothing, or a score per tweet *)
ChallengerAnswers(batch) ==
    { << >>, AnswerOf(batch, [ id \in SeqToSet(batch) |-> Some(85) ]) }

(* the message id the channel gives to the message of a tweet *)
TelegramMessageId(id) ==
    CASE id = "1" -> 201
      [] id = "2" -> 202
      [] OTHER    -> 203

NewStats == [ fetched |-> 0, filtered |-> 0, sent |-> 0, errors |-> << >> ]

NoRun ==
    [ number               |-> 1,
      pc                   |-> "fetch",
      tweets               |-> << >>,
      favorite_authors     |-> { },
      new_tweets           |-> << >>,
      favorite_authors_set |-> { },
      muted_authors        |-> { },
      tweets_for_filtering |-> << >>,
      lookup               |-> "not_called",
      rag_context          |-> None,
      scorer_input         |-> None,
      scored_tweets        |-> << >>,
      filtered_tweets      |-> << >>,
      message_ids          |-> << >>,
      notified             |-> "no" ]

(* the top-level except: the error is appended to stats["errors"] *)
Fail(s, error) ==
    /\ run' = [ run EXCEPT !.pc = "failed" ]
    /\ stats' = [ s EXCEPT !.errors = Append(@, error) ]

RECURSIVE MergeStarred(_, _)
(* step 1a: starred tweets not yet seen are appended *)
MergeStarred(tweets, starred) ==
    IF starred = << >> THEN tweets
    ELSE IF Head(starred) \in SeqToSet(tweets)
         THEN MergeStarred(tweets, Tail(starred))
         ELSE MergeStarred(Append(tweets, Head(starred)), Tail(starred))

(* steps 1 and 1a *)
RunFetch(timeline, starred, failure) ==
    /\ run.pc = "fetch"
    /\ LET favorites == favorite_authors
           merged    == IF favorites # { } THEN MergeStarred(timeline, starred)
                        ELSE timeline
           s1        == [ stats EXCEPT !.fetched = Len(timeline) ]
           s2        == IF favorites # { }
                        THEN Put(Put(s1, "starred_fetched", Len(starred)),
                                 "starred_new", Len(merged) - Len(timeline))
                        ELSE s1
       IN  /\ favorites = { } => starred = << >>
           /\ \A i \in DOMAIN starred :
                 Lower(Catalog[starred[i]].author_username) \in favorites
           /\ Len(merged) <= MaxFetch
           /\ CASE failure = "fetch_timeline" ->
                     /\ Fail(stats, failure)
                     /\ tweet_dicts' = tweet_dicts
                [] failure = "get_favorite_authors" ->
                     /\ Fail(s1, failure)
                     /\ tweet_dicts' = tweet_dicts
                [] OTHER ->
                     IF merged = << >>
                     THEN /\ run' = [ run EXCEPT !.pc = "returned" ]
                          /\ stats' = s2
                          /\ tweet_dicts' = tweet_dicts
                     ELSE /\ run' = [ run EXCEPT !.pc = "dedup",
                                                 !.tweets = merged,
                                                 !.favorite_authors = favorites ]
                          /\ stats' = [ s2 EXCEPT !.fetched = Len(merged) ]
                          /\ tweet_dicts' = [ id \in SeqToSet(merged) |-> Catalog[id] ]
    /\ UNCHANGED << ab_test_config, rag_config, tweets_table, experiment_scores,
                    channel, primary >>
    /\ UNCHANGED << thresholdVars, tierVars, feedbackVars, suspended >>

(* DatabaseClient.get_tweet_by_id: the row, or None *)
GetTweetById(table, tweet_id) ==
    IF tweet_id \in DOMAIN table THEN Some(table[tweet_id]) ELSE None

RECURSIVE DeduplicateTweets_Truthy(_, _)
(* slip: the score tested for truth, so a score of 0 reads as unscored *)
DeduplicateTweets_Truthy(tweets, table) ==
    IF tweets = << >> THEN << >>
    ELSE LET existing == GetTweetById(table, Head(tweets))
             rest     == DeduplicateTweets_Truthy(Tail(tweets), table)
         IN  IF /\ existing # None
                /\ Val(existing).filter_score # None
                /\ Val(Val(existing).filter_score) # 0
             THEN rest
             ELSE << Head(tweets) >> \o rest

RECURSIVE DeduplicateTweets_SentOnly(_, _)
(* slip: only the tweets marked as sent are dropped *)
DeduplicateTweets_SentOnly(tweets, table) ==
    IF tweets = << >> THEN << >>
    ELSE LET existing == GetTweetById(table, Head(tweets))
             rest     == DeduplicateTweets_SentOnly(Tail(tweets), table)
         IN  IF existing # None /\ Val(existing).telegram_message_id # None
             THEN rest
             ELSE << Head(tweets) >> \o rest

RECURSIVE DeduplicateTweets(_, _)
(* DailyCurator._deduplicate_tweets *)
DeduplicateTweets(tweets, table) ==
    IF tweets = << >> THEN << >>
    ELSE LET existing == GetTweetById(table, Head(tweets))
             rest     == DeduplicateTweets(Tail(tweets), table)
         IN  IF existing # None /\ Val(existing).filter_score # None
             THEN rest
             ELSE << Head(tweets) >> \o rest

(* slip: the run goes on with an empty list *)
NothingLeft_Ignored(tweets) == FALSE

(* "if not new_tweets: return stats", "if not tweets_for_filtering: ..." *)
NothingLeft(tweets) == tweets = << >>

(* slip: every fetched tweet is counted as skipped *)
SkippedDuplicates_AllFetched(tweets, new_tweets) == Len(tweets)

(* stats["skipped_duplicates"] = len(tweets) - len(new_tweets) *)
SkippedDuplicates(tweets, new_tweets) == Len(tweets) - Len(new_tweets)

(* step 1b *)
RunDeduplicate(store_ok) ==
    /\ run.pc = "dedup"
    /\ IF ~ store_ok
       THEN Fail(stats, "get_tweet_by_id")
       ELSE LET new_tweets == DeduplicateTweets(run.tweets, tweets_table)
            IN  /\ stats' = Put(Put(stats, "new", Len(new_tweets)),
                                "skipped_duplicates",
                                SkippedDuplicates(run.tweets, new_tweets))
                /\ run' = [ run EXCEPT
                              !.pc = IF NothingLeft(new_tweets) THEN "returned"
                                     ELSE "load_tiers",
                              !.new_tweets = new_tweets ]
    /\ UNCHANGED << ab_test_config, rag_config, tweets_table, experiment_scores,
                    channel, tweet_dicts, primary >>
    /\ UNCHANGED << thresholdVars, tierVars, feedbackVars, suspended >>

(* slip: every retweet is skipped, whoever its author *)
SkipRetweets_AllRetweets(tweets, new_tweets, favorites) ==
    SelectIds(new_tweets,
              { id \in DOMAIN tweets : ~ Get(tweets[id], "is_retweet", FALSE) })

(* step 1c: retweets are kept only for favorite authors *)
SkipRetweets(tweets, new_tweets, favorites) ==
    SelectIds(new_tweets,
              { id \in DOMAIN tweets :
                  ~ ( /\ Get(tweets[id], "is_retweet", FALSE)
                      /\ Lower(tweets[id].author_username) \notin favorites ) })

RunLoadTiers(failure) ==
    /\ run.pc = "load_tiers"
    /\ IF failure # "none"
       THEN Fail(stats, failure)
       ELSE LET favorites == IF run.favorite_authors = { } THEN favorite_authors
                             ELSE run.favorite_authors
                batch     == SkipRetweets(tweet_dicts, run.new_tweets, favorites)
            IN  /\ stats' = Put(stats, "skipped_retweets",
                                Len(run.new_tweets) - Len(batch))
                /\ run' = [ run EXCEPT
                              !.pc = IF NothingLeft(batch) THEN "returned" ELSE "rag",
                              !.favorite_authors = favorites,
                              !.favorite_authors_set = favorites,
                              !.muted_authors = muted_authors,
                              !.tweets_for_filtering = batch ]
    /\ UNCHANGED << ab_test_config, rag_config, tweets_table, experiment_scores,
                    channel, tweet_dicts, primary >>
    /\ UNCHANGED << thresholdVars, tierVars, feedbackVars, suspended >>

(* step 1d: the context block, None when retrieval is off, finds nothing  *)
(* or raises                                                               *)
(* slip: the rag_enabled flag of the curator is not consulted *)
RagEnabled_IgnoresFlag(config) == config.embedding_manager = "enabled"

(* self.rag_enabled and self.embedding_manager and its enabled property *)
RagEnabled(config) ==
    config.rag_enabled /\ config.embedding_manager = "enabled"

RunBuildRag(outcome) ==
    /\ run.pc = "rag"
    /\ LET enabled == RagEnabled(rag_config)
           found   == enabled /\ outcome = "similar"
       IN  /\ run' = [ run EXCEPT
                         !.pc = "score",
                         !.lookup = IF enabled THEN outcome ELSE "not_called",
                         !.rag_context = IF found THEN Some("context") ELSE None ]
           /\ stats' = IF found THEN Put(stats, "rag_matches", 1) ELSE stats
    /\ UNCHANGED << ab_test_config, rag_config, tweets_table, experiment_scores,
                    channel, tweet_dicts, primary >>
    /\ UNCHANGED << thresholdVars, tierVars, feedbackVars, suspended >>

(* the arguments of the call self.claude.filter_tweets(...) *)
ScorerInput ==
    Some([ tweets      |-> run.tweets_for_filtering,
           threshold   |-> curator.filter_threshold,
           rag_context |-> run.rag_context ])

(* step 2: the primary scoring call, at the floor threshold *)
RunScore(answer, api_ok) ==
    /\ run.pc = "score"
    /\ IF ~ api_ok
       THEN /\ run' = [ run EXCEPT !.pc = "failed",
                                   !.scorer_input = ScorerInput ]
            /\ stats' = [ stats EXCEPT !.errors = Append(@, "filter_tweets") ]
            /\ UNCHANGED << tweet_dicts, primary >>
       ELSE LET enriched == FilterTweetsEnrich(tweet_dicts, run.tweets_for_filtering,
                                               curator.filter_threshold, answer)
            IN  /\ tweet_dicts' = enriched
                /\ primary' = enriched
                /\ run' = [ run EXCEPT
                              !.pc = "shadow",
                              !.scorer_input = ScorerInput,
                              !.scored_tweets =
                                  FilterTweetsReturn(enriched,
                                                     run.tweets_for_filtering) ]
                /\ stats' = stats
    /\ UNCHANGED << ab_test_config, rag_config, tweets_table, experiment_scores,
                    channel >>
    /\ UNCHANGED << thresholdVars, tierVars, feedbackVars, suspended >>

(***************************************************************************)
(* Step 2a: the shadow stage.                                              *)
(***************************************************************************)
AbTestConfigs ==
    { EmptyMap,
      [ enabled |-> TRUE, experiment_id |-> "exp", challenger_prompt |-> "V3" ],
      [ enabled |-> TRUE, challenger_prompt |-> "V3" ] }

(* the exception raised inside the try block of the stage, or "none" *)
ShadowFailure(config, outcome) ==
    IF "experiment_id" \notin DOMAIN config \/ "challenger_prompt" \notin DOMAIN config
    THEN "KeyError"
    ELSE IF outcome = "score_raises" THEN "score_tweets_with_prompt"
    ELSE IF outcome = "save_raises" THEN "save_ab_test_scores"
    ELSE "none"

ShadowFailures == { "KeyError", "score_tweets_with_prompt", "save_ab_test_scores" }

(* slip: only the missing configuration key is caught *)
ShadowCatches_KeyErrorOnly(failure) == failure = "KeyError"

(* except Exception: every failure of the stage is caught *)
ShadowCatches(failure) == failure \in ShadowFailures

RECURSIVE ControlScores(_, _)
(* the primary scores of the batch, for the tweets that have one *)
ControlScores(tweets, batch) ==
    IF batch = << >> THEN << >>
    ELSE LET t    == tweets[Head(batch)]
             rest == ControlScores(tweets, Tail(batch))
         IN  IF "filter_score" \in DOMAIN t
             THEN << [ tweet_id |-> t.tweet_id, score |-> t.filter_score,
                       reason   |-> Get(t, "filter_reason", "") ] >> \o rest
             ELSE rest

(* DatabaseClient.save_ab_test_scores: both score lists stored against the *)
(* experiment, keyed by (experiment id, tweet id, variant)                 *)
SaveAbTestScores(table, experiment_id, control_scores, control_key, challenger_scores, challenger_key) ==
    LET control    == ScoreMap(control_scores)
        challenger == ScoreMap(challenger_scores)
        keys       == { << experiment_id, id, control_key >> : id \in DOMAIN control }
                      \cup
                      { << experiment_id, id, challenger_key >> : id \in DOMAIN challenger }
    IN  [ k \in DOMAIN table \cup keys |->
            IF k \in keys
            THEN IF k[3] = challenger_key /\ k[2] \in DOMAIN challenger
                 THEN challenger[k[2]].score
                 ELSE control[k[2]].score
            ELSE table[k] ]

RunShadow(outcome, challenger_scores) ==
    /\ run.pc = "shadow"
    /\ IF ~ Get(ab_test_config, "enabled", FALSE)
       THEN /\ run' = [ run EXCEPT !.pc = "tiers" ]
            /\ UNCHANGED << stats, experiment_scores >>
       ELSE LET failure == ShadowFailure(ab_test_config, outcome)
            IN  IF failure = "none"
                THEN LET control_key    == IF run.rag_context # None THEN "V2" ELSE "V1"
                         control_scores == ControlScores(tweet_dicts, run.tweets_for_filtering)
                     IN  /\ experiment_scores' =
                               SaveAbTestScores(experiment_scores,
                                                ab_test_config.experiment_id,
                                                control_scores, control_key,
                                                challenger_scores,
                                                ab_test_config.challenger_prompt)
                         /\ stats' = Put(Put(stats, "ab_test_control_scores",
                                             Len(control_scores)),
                                         "ab_test_challenger_scores",
                                         Len(challenger_scores))
                         /\ run' = [ run EXCEPT !.pc = "tiers" ]
                ELSE IF ShadowCatches(failure)
                THEN /\ stats' = Put(stats, "ab_test_error", failure)
                     /\ run' = [ run EXCEPT !.pc = "tiers" ]
                     /\ UNCHANGED experiment_scores
                ELSE /\ Fail(stats, failure)
                     /\ UNCHANGED experiment_scores
    /\ UNCHANGED << ab_test_config, rag_config, tweets_table, channel, tweet_dicts, primary >>
    /\ UNCHANGED << thresholdVars, tierVars, feedbackVars, suspended >>

(* step 2b *)
RunApplyThresholds ==
    /\ run.pc = "tiers"
    /\ LET filtered_tweets == FilteredTweets(curator, tweet_dicts, run.scored_tweets,
                                             run.muted_authors,
                                             run.favorite_authors_set)
       IN  /\ tweet_dicts' = ApplyTiers(curator, tweet_dicts, run.scored_tweets, run.muted_authors,
                               run.favorite_authors_set)
           /\ run' = [ run EXCEPT !.pc = "save",
                                  !.filtered_tweets = filtered_tweets ]
           /\ stats' = Put([ stats EXCEPT !.filtered = Len(filtered_tweets) ],
                           "tier_breakdown",
                           TierCounts(tweet_dicts, run.scored_tweets, run.muted_authors,
                                      run.favorite_authors_set))
    /\ UNCHANGED << ab_test_config, rag_config, tweets_table, experiment_scores,
                    channel, primary >>
    /\ UNCHANGED << thresholdVars, tierVars, feedbackVars, suspended >>

(* slip: a score of 0 is stored as NULL *)
SaveTweets_ZeroAsNull(table, tweets, ids) ==
    [ id \in DOMAIN table \cup SeqToSet(ids) |->
        IF id \in SeqToSet(ids)
        THEN [ filter_score        |-> IF Get(tweets[id], "filter_score", 0) # 0
                                       THEN Some(tweets[id].filter_score)
                                       ELSE None,
               filtered            |-> Get(tweets[id], "filtered", FALSE),
               telegram_message_id |-> IF id \in DOMAIN table
                                       THEN table[id].telegram_message_id
                                       ELSE None ]
        ELSE table[id] ]

(* DatabaseClient.save_tweets: upsert by tweet_id of the score columns *)
SaveTweets(table, tweets, ids) ==
    [ id \in DOMAIN table \cup SeqToSet(ids) |->
        IF id \in SeqToSet(ids)
        THEN [ filter_score        |-> IF "filter_score" \in DOMAIN tweets[id]
                                       THEN Some(tweets[id].filter_score)
                                       ELSE None,
               filtered            |-> Get(tweets[id], "filtered", FALSE),
               telegram_message_id |-> IF id \in DOMAIN table
                                       THEN table[id].telegram_message_id
                                       ELSE None ]
        ELSE table[id] ]

(* step 3 *)
RunSave(store_ok) ==
    /\ run.pc = "save"
    /\ IF ~ store_ok
       THEN /\ Fail(stats, "save_tweets")
            /\ UNCHANGED tweets_table
       ELSE /\ tweets_table' = SaveTweets(tweets_table, tweet_dicts, run.new_tweets)
            /\ IF run.filtered_tweets # << >>
               THEN /\ run' = [ run EXCEPT !.pc = "send" ]
                    /\ stats' = stats
               ELSE /\ run' = [ run EXCEPT !.pc = "returned" ]
                    /\ stats' = Put(stats, "completed_at", TRUE)
    /\ UNCHANGED << ab_test_config, rag_config, experiment_scores, channel, tweet_dicts,
                    primary >>
    /\ UNCHANGED << thresholdVars, tierVars, feedbackVars, suspended >>

RECURSIVE SentMessageIds(_, _)
(* send_daily_digest: the ids of the messages that were sent *)
SentMessageIds(tweets, failed) ==
    IF tweets = << >> THEN << >>
    ELSE IF Head(tweets) \in failed THEN SentMessageIds(Tail(tweets), failed)
    ELSE << TelegramMessageId(Head(tweets)) >> \o SentMessageIds(Tail(tweets), failed)

(* step 4: the digest *)
RunSend(header_ok, failed) ==
    /\ run.pc = "send"
    /\ IF ~ header_ok
       THEN /\ Fail(stats, "send_message")
            /\ UNCHANGED channel
       ELSE /\ channel' = channel \cup (SeqToSet(run.filtered_tweets) \ failed)
            /\ run' = [ run EXCEPT
                          !.pc = "mark",
                          !.message_ids = SentMessageIds(run.filtered_tweets, failed) ]
            /\ stats' = stats
    /\ UNCHANGED << ab_test_config, rag_config, tweets_table, experiment_scores,
                    tweet_dicts, primary >>
    /\ UNCHANGED << thresholdVars, tierVars, feedbackVars, suspended >>

(* mark_tweet_sent for the first n pairs of zip(filtered_tweets, message_ids) *)
MarkSent(table, filtered_tweets, message_ids, n) ==
    [ id \in DOMAIN table |->
        IF \E i \in 1 .. n : filtered_tweets[i] = id
        THEN LET i == CHOOSE i \in 1 .. n : filtered_tweets[i] = id
             IN  [ table[id] EXCEPT !.telegram_message_id = Some(message_ids[i]) ]
        ELSE table[id] ]

(* step 4, after the digest: fail_at is the pair whose store update raises *)
RunMarkSent(fail_at) ==
    /\ run.pc = "mark"
    /\ LET pairs == IF Len(run.message_ids) < Len(run.filtered_tweets)
                    THEN Len(run.message_ids) ELSE Len(run.filtered_tweets)
           s1    == [ stats EXCEPT !.sent = Len(run.message_ids) ]
       IN  /\ fail_at \in 0 .. pairs
           /\ IF fail_at = 0
              THEN /\ tweets_table' = MarkSent(tweets_table, run.filtered_tweets,
                                               run.message_ids, pairs)
                   /\ run' = [ run EXCEPT !.pc = "returned" ]
                   /\ stats' = Put(s1, "completed_at", TRUE)
              ELSE /\ tweets_table' = MarkSent(tweets_table, run.filtered_tweets,
                                               run.message_ids, fail_at - 1)
                   /\ Fail(s1, "mark_tweet_sent")
    /\ UNCHANGED << ab_test_config, rag_config, experiment_scores, channel, tweet_dicts,
                    primary >>
    /\ UNCHANGED << thresholdVars, tierVars, feedbackVars, suspended >>

(* the top-level except, after the error was recorded: the notification   *)
(* is attempted, its own failure is logged, and the stats are returned     *)
(* slip: the notification is sent outside any try block *)
NotifyRaises_Unguarded(send_ok) == ~ send_ok

(* whether the failure of the error notification leaves the handler: the   *)
(* send is inside try/except Exception in send_error_notification and in   *)
(* the except clause of the run                                            *)
NotifyRaises(send_ok) == FALSE

RunNotifyError(send_ok) ==
    /\ run.pc = "failed"
    /\ run' = [ run EXCEPT
                  !.pc = IF NotifyRaises(send_ok) THEN "raised" ELSE "returned",
                  !.notified = IF send_ok THEN "sent" ELSE "send_failed" ]
    /\ UNCHANGED << ab_test_config, rag_config, tweets_table, experiment_scores,
                    channel, tweet_dicts, stats, primary >>
    /\ UNCHANGED << thresholdVars, tierVars, feedbackVars, suspended >>

(* the scheduled job starts the next run once the previous one returned *)
RunAgain ==
    /\ run.pc = "returned"
    /\ run.number < MaxRuns
    /\ run' = [ NoRun EXCEPT !.number = run.number + 1 ]
    /\ stats' = NewStats
    /\ tweet_dicts' = EmptyMap
    /\ primary' = EmptyMap
    /\ UNCHANGED << ab_test_config, rag_config, tweets_table, experiment_scores,
                    channel >>
    /\ UNCHANGED << thresholdVars, tierVars, feedbackVars, suspended >>

RunIdle ==
    /\ ab_test_config = EmptyMap
    /\ rag_config = [ rag_enabled |-> FALSE, embedding_manager |-> "absent" ]
    /\ tweets_table = EmptyMap
    /\ experiment_scores = EmptyMap
    /\ channel = { }
    /\ run = NoRun
    /\ tweet_dicts = EmptyMap
    /\ stats = NewStats
    /\ primary = EmptyMap
    /\ suspended = None

ThresholdsInit ==
    /\ settings \in [ filter_threshold          : BaseThresholds,
                      favorite_threshold_offset : Offsets,
                      muted_threshold_offset    : Offsets ]
    /\ curator = DailyCuratorInit(settings)
    /\ probe = NoProbe
    /\ TierInit
    /\ FeedbackInit
    /\ RunIdle

ThresholdsNext ==
    \/ \E score \in ProbeScores, tier \in Tiers : ProbeItem(score, tier)
    \/ ResetProbe

SpecThresholds == ThresholdsInit /\ [][ThresholdsNext]_vars

(***************************************************************************)
(* Tier specification: any sequence of toggles on any user names, with     *)
(* any outcome of the store calls.                                         *)
(***************************************************************************)
TiersInit ==
    /\ settings = DefaultSettings
    /\ curator = DailyCuratorInit(settings)
    /\ probe = NoProbe
    /\ TierInit
    /\ FeedbackInit
    /\ RunIdle

TiersNext ==
    \/ \E raw \in RawUsernames, query_ok \in BOOLEAN, write_ok \in BOOLEAN :
          ToggleFavorite(raw, query_ok, write_ok)
    \/ \E raw \in RawUsernames, query_ok \in BOOLEAN, write_ok \in BOOLEAN :
          ToggleMute(raw, query_ok, write_ok)

SpecTiers == TiersInit /\ [][TiersNext]_vars

(***************************************************************************)
(* Feedback specification: any interleaving of callbacks and task steps.   *)
(***************************************************************************)
FeedbackNext ==
    \/ \E t \in FeedbackItems, vote \in { "up", "down" }, edit_ok \in BOOLEAN :
          VotePressed(t, vote, edit_ok)
    \/ \E t \in FeedbackItems, choice \in ReasonChoices : Reason(t, choice)
    \/ \E t \in FeedbackItems, code \in LikeReasonCodes : LikeReason(t, code)
    \/ \E edit_ok \in BOOLEAN : ReasonEdit(edit_ok)
    \/ \E k \in 1 .. MaxTasks, insert_ok \in BOOLEAN,
          outcome \in PossibleEmbedOutcomes(rag_config) :
          SaveAfterDelay(k, insert_ok, outcome)
    \/ \E k \in 1 .. MaxTasks, edit_ok \in BOOLEAN : SaveAfterDelayFinish(k, edit_ok)
    \/ \E t \in FeedbackItems : Undo(t)
    \/ \E t \in FeedbackItems : LikeUndo(t)
    \/ \E edit_ok \in BOOLEAN : UndoEdit(edit_ok)

SpecFeedback == TiersInit /\ [][FeedbackNext]_vars

(***************************************************************************)
(* Run specification: one curation run over an empty store, with any      *)
(* experiment configuration and any outcome of every call.                 *)
(***************************************************************************)
RunNext ==
    \/ \E timeline \in Fetches(MaxFetch), starred \in Fetches(MaxFetch),
          failure \in { "none", "fetch_timeline", "get_favorite_authors" } :
          RunFetch(timeline, starred, failure)
    \/ \E store_ok \in BOOLEAN : RunDeduplicate(store_ok)
    \/ \E failure \in { "none", "get_favorite_authors", "get_muted_authors" } :
          RunLoadTiers(failure)
    \/ \E outcome \in { "similar", "nothing", "raises" } : RunBuildRag(outcome)
    \/ \E answer \in Answers(run.tweets_for_filtering, ScoreValues),
          api_ok \in BOOLEAN : RunScore(answer, api_ok)
    \/ \E outcome \in { "ok", "score_raises", "save_raises" },
          challenger_scores \in ChallengerAnswers(run.tweets_for_filtering) :
          RunShadow(outcome, challenger_scores)
    \/ RunApplyThresholds
    \/ \E store_ok \in BOOLEAN : RunSave(store_ok)
    \/ \E header_ok \in BOOLEAN, failed \in SUBSET SeqToSet(run.filtered_tweets) :
          RunSend(header_ok, failed)
    \/ \E fail_at \in 0 .. MaxFetch : RunMarkSent(fail_at)
    \/ \E send_ok \in BOOLEAN : RunNotifyError(send_ok)

RunInit ==
    /\ settings = DefaultSettings
    /\ curator = DailyCuratorInit(settings)
    /\ probe = NoProbe
    /\ favorite_authors \in { { }, { << "a" >> } }
    /\ muted_authors \in { { }, { << "b" >> } }
    /\ toggle = NoToggle
    /\ prev_toggle = NoToggle
    /\ inflight = NoCalls
    /\ FeedbackInit
    /\ ab_test_config \in AbTestConfigs
    /\ rag_config = [ rag_enabled |-> TRUE, embedding_manager |-> "enabled" ]
    /\ tweets_table = EmptyMap
    /\ experiment_scores = EmptyMap
    /\ channel = { }
    /\ run = NoRun
    /\ tweet_dicts = EmptyMap
    /\ stats = NewStats
    /\ primary = EmptyMap
    /\ suspended = None

SpecRun == RunInit /\ [][RunNext]_vars

(***************************************************************************)
(* Pass specification: one curation run without experiment, with any tier  *)
(* sets over the known handles.                                            *)
(***************************************************************************)
PassInit ==
    /\ settings = DefaultSettings
    /\ curator = DailyCuratorInit(settings)
    /\ probe = NoProbe
    /\ favorite_authors \in SUBSET Handles
    /\ muted_authors \in SUBSET Handles
    /\ toggle = NoToggle
    /\ prev_toggle = NoToggle
    /\ inflight = NoCalls
    /\ FeedbackInit
    /\ ab_test_config = EmptyMap
    /\ rag_config = [ rag_enabled |-> FALSE, embedding_manager |-> "absent" ]
    /\ tweets_table = EmptyMap
    /\ experiment_scores = EmptyMap
    /\ channel = { }
    /\ run = NoRun
    /\ tweet_dicts = EmptyMap
    /\ stats = NewStats
    /\ primary = EmptyMap
    /\ suspended = None

SpecPass == PassInit /\ [][RunNext]_vars

(***************************************************************************)
(* Dedup specification: one curation run over any store of scored,         *)
(* unscored and absent tweets.                                             *)
(***************************************************************************)
StoredRows ==
    { [ filter_score |-> None, filtered |-> FALSE, telegram_message_id |-> None ],
      [ filter_score |-> Some(0), filtered |-> FALSE, telegram_message_id |-> None ],
      [ filter_score |-> Some(85), filtered |-> TRUE, telegram_message_id |-> Some(200) ] }

Stores == UNION { [ ids -> StoredRows ] : ids \in SUBSET TweetIds }

DedupInit ==
    /\ settings = DefaultSettings
    /\ curator = DailyCuratorInit(settings)
    /\ probe = NoProbe
    /\ TierInit
    /\ FeedbackInit
    /\ ab_test_config = EmptyMap
    /\ rag_config = [ rag_enabled |-> FALSE, embedding_manager |-> "absent" ]
    /\ tweets_table \in Stores
    /\ experiment_scores = EmptyMap
    /\ channel = { }
    /\ run = NoRun
    /\ tweet_dicts = EmptyMap
    /\ stats = NewStats
    /\ primary = EmptyMap
    /\ suspended = None

SpecDedup == DedupInit /\ [][RunNext]_vars

(***************************************************************************)
(* EmbeddingManager.find_similar_voted_tweets, from the per-tweet result   *)
(* lists of the store on.  A match is [tweet_id, similarity]; similarity   *)
(* is in hundredths.                                                       *)
(***************************************************************************)
RECURSIVE AppendUnseen(_, _)
(* the inner loop: a match is appended unless its tweet_id was seen *)
AppendUnseen(all_similar, matches) ==
    IF matches = << >> THEN all_similar
    ELSE IF \E i \in DOMAIN all_similar : all_similar[i].tweet_id = Head(matches).tweet_id
         THEN AppendUnseen(all_similar, Tail(matches))
         ELSE AppendUnseen(Append(all_similar, Head(matches)), Tail(matches))

RECURSIVE MergeMatches(_)
(* the outer loop over the embeddings, in batch order *)
MergeMatches(per_item) ==
    IF per_item = << >> THEN << >>
    ELSE AppendUnseen(MergeMatches(SubSeq(per_item, 1, Len(per_item) - 1)),
                      per_item[Len(per_item)])

RECURSIVE InsertDescending(_, _)
InsertDescending(sorted, m) ==
    IF sorted = << >> THEN << m >>
    ELSE IF Head(sorted).similarity >= m.similarity
         THEN << Head(sorted) >> \o InsertDescending(Tail(sorted), m)
         ELSE << m >> \o sorted

RECURSIVE SortDescending(_)
(* list.sort(key=similarity, reverse=True): stable *)
SortDescending(matches) ==
    IF matches = << >> THEN << >>
    ELSE InsertDescending(SortDescending(SubSeq(matches, 1, Len(matches) - 1)),
                          matches[Len(matches)])

FindSimilarVotedTweets(per_item, limit) ==
    LET sorted == SortDescending(MergeMatches(per_item))
    IN  SubSeq(sorted, 1, IF Len(sorted) < limit THEN Len(sorted) ELSE limit)

(***************************************************************************)
(* Similar specification: find_similar_voted_tweets on every list of       *)
(* per-tweet result lists the store can return.                            *)
(***************************************************************************)
VotedIds == { "x", "y", "z" }

Similarities == { 60, 80, 90 }

Limits == { 1, 2 }

(* what the store returns for one query when every tweet has one vote:     *)
(* distinct tweets, nearest first, at most limit of them                   *)
MatchLists(limit) ==
    { << >> }
    \cup { << [ tweet_id |-> a, similarity |-> v ] >> :
             a \in VotedIds, v \in Similarities }
    \cup { << [ tweet_id |-> m[1], similarity |-> m[2] ],
              [ tweet_id |-> m[3], similarity |-> m[4] ] >> :
             m \in { n \in VotedIds \X Similarities \X VotedIds \X Similarities :
                       limit >= 2 /\ n[1] # n[3] /\ n[2] >= n[4] } }

SimilarInputs ==
    UNION { [ done : { FALSE }, limit : { l },
              per_item : UNION { [ 1 .. n -> MatchLists(l) ] : n \in 0 .. MaxQueries } ] :
            l \in Limits }

FindSimilar ==
    /\ ~ probe.done
    /\ probe' = [ done     |-> TRUE,
                  limit    |-> probe.limit,
                  per_item |-> probe.per_item,
                  similar  |-> FindSimilarVotedTweets(probe.per_item, probe.limit) ]
    /\ UNCHANGED << settings, curator, tierVars, feedbackVars, runVars >>

SimilarInit ==
    /\ settings = DefaultSettings
    /\ curator = DailyCuratorInit(settings)
    /\ probe \in SimilarInputs
    /\ TierInit
    /\ FeedbackInit
    /\ RunIdle

SimilarNext == FindSimilar

SpecSimilar == SimilarInit /\ [][SimilarNext]_vars

(***************************************************************************)
(* Rag specification: one curation run under every setting of the          *)
(* retrieval flag and of the embedding manager.                            *)
(***************************************************************************)
RagConfigs ==
    [ rag_enabled : BOOLEAN, embedding_manager : { "absent", "disabled", "enabled" } ]

RagInit ==
    /\ settings = DefaultSettings
    /\ curator = DailyCuratorInit(settings)
    /\ probe = NoProbe
    /\ TierInit
    /\ FeedbackInit
    /\ ab_test_config = EmptyMap
    /\ rag_config \in RagConfigs
    /\ tweets_table = EmptyMap
    /\ experiment_scores = EmptyMap
    /\ channel = { }
    /\ run = NoRun
    /\ tweet_dicts = EmptyMap
    /\ stats = NewStats
    /\ primary = EmptyMap
    /\ suspended = None

SpecRag == RagInit /\ [][RunNext]_vars

(***************************************************************************)
(* Rerun specification: curation runs one after the other on the same      *)
(* store, which starts empty.                                              *)
(***************************************************************************)
RerunInit ==
    /\ settings = DefaultSettings
    /\ curator = DailyCuratorInit(settings)
    /\ probe = NoProbe
    /\ TierInit
    /\ FeedbackInit
    /\ RunIdle

RerunNext ==
    \/ RunNext
    \/ RunAgain

SpecRerun == RerunInit /\ [][RerunNext]_vars

(***************************************************************************)
(* Response parsing (claude_filter.py).  A response text is modelled by    *)
(* what the parser can see of it: whether it starts with a code fence,     *)
(* what json.loads makes of the text between the fences, and the triples   *)
(* the fallback pattern finds in the raw text.                             *)
(***************************************************************************)
MaxEntries == 2

(* a JSON tweet_id: a string or a number, with the digits it is written in *)
JsonIds ==
    { [ t |-> "str", digits |-> "1" ],
      [ t |-> "int", digits |-> "2" ],
      [ t |-> "str", digits |-> "3" ] }

(* a JSON score: an integer (also one above 100 or below 0), a float (in   *)
(* tenths), a string of digits, a string that is not a number, or null     *)
JsonScores ==
    { [ t |-> "int",    v |-> 85 ],
      [ t |-> "int",    v |-> 45 ],
      [ t |-> "int",    v |-> 150 ],
      [ t |-> "int",    v |-> 0 - 5 ],
      [ t |-> "float",  v |-> 855 ],
      [ t |-> "digits", v |-> 85 ],
      [ t |-> "word",   v |-> 0 ],
      [ t |-> "null",   v |-> 0 ] }

(* the entries of a JSON list: objects with or without the three keys, and *)
(* an entry that is not an object                                          *)
JsonItems ==
    [ type : { "dict" }, tweet_id : { Some(i) : i \in JsonIds },
      score : { Some(s) : s \in JsonScores }, reason : { Some("because") } ]
    \cup
    { [ type |-> "dict", tweet_id |-> Some([ t |-> "str", digits |-> "1" ]),
        score |-> Some([ t |-> "int", v |-> 85 ]), reason |-> None ],
      [ type |-> "dict", tweet_id |-> Some([ t |-> "str", digits |-> "1" ]),
        score |-> None, reason |-> Some("because") ],
      [ type |-> "dict", tweet_id |-> None,
        score |-> Some([ t |-> "int", v |-> 85 ]), reason |-> Some("because") ],
      [ type |-> "number", tweet_id |-> None, score |-> None, reason |-> None ] }

(* what json.loads can return: a list, or a value that is not a list *)
JsonValues ==
    [ type : { "list" },
      items : UNION { [ 1 .. n -> JsonItems ] : n \in 0 .. MaxEntries } ]
    \cup
    [ type : { "number", "null", "true", "object", "string" }, items : { << >> } ]

(* the groups the fallback pattern captures: id, digits of the score, reason *)
PatternMatches ==
    [ tweet_id : { "1", "3" }, score : { 45, 85, 150 }, reason : { "because" } ]

(* the texts the scorer can return *)
ResponseTexts ==
    [ fence : BOOLEAN, json : { Some(j) : j \in JsonValues }, matches : { << >> } ]
    \cup
    [ fence : BOOLEAN, json : { None },
      matches : UNION { [ 1 .. n -> PatternMatches ] : n \in 0 .. MaxEntries } ]

(* "\n".join(lines[1:-1]) : the text without its first and last line *)
StripFence(text) == [ text EXCEPT !.fence = FALSE ]

(* json.loads: the value, or None for json.JSONDecodeError *)
JsonLoads(text) == IF text.fence THEN None ELSE text.json

(* str(item["tweet_id"]) *)
Str(id) == id.digits

(* the exception int(score) raises, "none" when it raises nothing *)
IntRaises(score) ==
    CASE score.t = "word" -> "ValueError"
      [] score.t = "null" -> "TypeError"
      [] OTHER            -> "none"

(* int(score) when it does not raise: a float is truncated *)
IntOf(score) == IF score.t = "float" THEN score.v \div 10 ELSE score.v

RECURSIVE Validate(_)
(* the loop over the decoded list, claude_filter.py 414-427 *)
Validate(items) ==
    IF items = << >> THEN [ raised |-> "none", scores |-> << >> ]
    ELSE LET before == Validate(SubSeq(items, 1, Len(items) - 1))
             item   == items[Len(items)]
         IN  IF before.raised # "none" THEN before
             ELSE IF item.type # "dict" THEN before
             ELSE IF item.tweet_id = None \/ item.score = None THEN before
             ELSE IF IntRaises(Val(item.score)) # "none"
                  THEN [ raised |-> IntRaises(Val(item.score)), scores |-> << >> ]
             ELSE [ raised |-> "none",
                    scores |-> Append(before.scores,
                       [ tweet_id |-> Str(Val(item.tweet_id)),
                         score    |-> IntOf(Val(item.score)),
                         reason   |-> IF item.reason = None
                                      THEN "No reason provided"
                                      ELSE Val(item.reason) ]) ]

(* _fallback_parse: one entry for every match of the pattern *)
FallbackParse(text) ==
    [ i \in DOMAIN text.matches |->
        [ tweet_id |-> text.matches[i].tweet_id,
          score    |-> text.matches[i].score,
          reason   |-> text.matches[i].reason ] ]

(* _parse_response: only json.JSONDecodeError leads to the fallback parser *)
ParseResponse(text) ==
    LET decoded == JsonLoads(IF text.fence THEN StripFence(text) ELSE text)
    IN  IF decoded = None
        THEN [ raised |-> "none", scores |-> FallbackParse(text) ]
        ELSE LET scores == Val(decoded)
             IN  CASE scores.type \in { "number", "null", "true" } ->
                        [ raised |-> "TypeError", scores |-> << >> ]
                   [] scores.type \in { "object", "string" } ->
                        [ raised |-> "none", scores |-> << >> ]
                   [] OTHER -> Validate(scores.items)

(* the batch submitted to filter_tweets; tweet 3 is known but not submitted *)
ParseBatch == << "1", "2" >>

(* filter_tweets from the parsing of the response on *)
FilterTweetsParse ==
    /\ ~ probe.done
    /\ LET parsed == ParseResponse(probe.text)
       IN  probe' = [ done   |-> TRUE,
                      text   |-> probe.text,
                      raised |-> parsed.raised,
                      scores |-> parsed.scores,
                      tweets |-> IF parsed.raised = "none"
                                 THEN FilterTweetsEnrich(Catalog, ParseBatch,
                                         curator.filter_threshold, parsed.scores)
                                 ELSE Catalog ]
    /\ UNCHANGED << settings, curator, tierVars, feedbackVars, runVars >>

ParseInit ==
    /\ settings = DefaultSettings
    /\ curator = DailyCuratorInit(settings)
    /\ probe \in [ done : { FALSE }, text : ResponseTexts ]
    /\ TierInit
    /\ FeedbackInit
    /\ RunIdle

ParseNext == FilterTweetsParse

SpecParse == ParseInit /\ [][ParseNext]_vars

(***************************************************************************)
(* Commit specification: the feedback handlers with every setting of the   *)
(* embedding provider, on a store that may already hold the embedding of   *)
(* one of the tweets.                                                      *)
(***************************************************************************)
CommitInit ==
    /\ settings = DefaultSettings
    /\ curator = DailyCuratorInit(settings)
    /\ probe = NoProbe
    /\ TierInit
    /\ pending_feedback = EmptyMap
    /\ tasks = << >>
    /\ feedback = << >>
    /\ reply_markup = [ t \in FeedbackItems |-> "tweet_buttons" ]
    /\ handler = Idle
    /\ embeddings_table \in { { }, { "t1" } }
    /\ ab_test_config = EmptyMap
    /\ rag_config \in [ rag_enabled : { FALSE },
                        embedding_manager : { "absent", "disabled", "enabled" } ]
    /\ tweets_table = EmptyMap
    /\ experiment_scores = EmptyMap
    /\ channel = { }
    /\ run = NoRun
    /\ tweet_dicts = EmptyMap
    /\ stats = NewStats
    /\ primary = EmptyMap
    /\ suspended = None

(* the handlers that stage, commit and undo a vote, for one choice of vote *)
(* and reason; the like flow stages its votes through the same steps       *)
CommitNext ==
    \/ \E t \in FeedbackItems : Reason(t, [ vote |-> "up", code |-> "tech" ])
    \/ \E edit_ok \in BOOLEAN : ReasonEdit(edit_ok)
    \/ \E k \in 1 .. MaxTasks, insert_ok \in BOOLEAN,
          outcome \in PossibleEmbedOutcomes(rag_config) :
          SaveAfterDelay(k, insert_ok, outcome)
    \/ \E k \in 1 .. MaxTasks, edit_ok \in BOOLEAN : SaveAfterDelayFinish(k, edit_ok)
    \/ \E t \in FeedbackItems : Undo(t)
    \/ \E edit_ok \in BOOLEAN : UndoEdit(edit_ok)

SpecCommit == CommitInit /\ [][CommitNext]_vars

(* the reason, like-reason and undo handlers and the delayed tasks from the *)
(* empty store: the votes of two items staged, committed and undone in     *)
(* every order                                                             *)
ItemsNext ==
    \/ \E t \in FeedbackItems, choice \in ReasonChoices : Reason(t, choice)
    \/ \E t \in FeedbackItems, code \in LikeReasonCodes : LikeReason(t, code)
    \/ \E edit_ok \in BOOLEAN : ReasonEdit(edit_ok)
    \/ \E k \in 1 .. MaxTasks, insert_ok \in BOOLEAN, outcome \in PossibleEmbedOutcomes(rag_config) : SaveAfterDelay(k, insert_ok, outcome)
    \/ \E k \in 1 .. MaxTasks, edit_ok \in BOOLEAN : SaveAfterDelayFinish(k, edit_ok)
    \/ \E t \in FeedbackItems : Undo(t)
    \/ \E t \in FeedbackItems : LikeUndo(t)
    \/ \E edit_ok \in BOOLEAN : UndoEdit(edit_ok)

SpecItems == TiersInit /\ [][ItemsNext]_vars


(***************************************************************************)
(* Entry specification: the reason handler takes the vote from the         *)
(* callback data "reason:{tweet_id}:{vote}:{reason_code}" as it is, so the *)
(* data may name a vote other than up and down.                            *)
(***************************************************************************)
CallbackVotes == { "up", "sideways" }

EntryNext ==
    \/ \E t \in FeedbackItems, vote \in CallbackVotes :
          Reason(t, [ vote |-> vote, code |-> "tech" ])
    \/ \E edit_ok \in BOOLEAN : ReasonEdit(edit_ok)
    \/ \E k \in 1 .. MaxTasks, insert_ok \in BOOLEAN,
          outcome \in PossibleEmbedOutcomes(rag_config) :
          SaveAfterDelay(k, insert_ok, outcome)
    \/ \E k \in 1 .. MaxTasks, edit_ok \in BOOLEAN : SaveAfterDelayFinish(k, edit_ok)
    \/ \E t \in FeedbackItems : Undo(t)
    \/ \E edit_ok \in BOOLEAN : UndoEdit(edit_ok)

SpecEntry == TiersInit /\ [][EntryNext]_vars


(***************************************************************************)
(* Weighted stats aggregator (DatabaseClient.get_author_stats).  Weights   *)
(* are counted in halves, so that 1.0 is 2 and 0.5 is 1, and a reputation  *)
(* score is the fraction num / den.                                        *)
(***************************************************************************)
MaxVotes == 3

StatAuthors == { "a", "b" }

(* a vote row joined with its tweet; tweets is None when the tweet of the  *)
(* vote cannot be resolved                                                 *)
VoteRows ==
    [ user_vote : { "up", "down" },
      tweets : { Some(t) : t \in [ author_username : StatAuthors,
                                   is_retweet : BOOLEAN ] } ]
    \cup { [ user_vote |-> "up", tweets |-> None ] }

VoteHistories == UNION { [ 1 .. n -> VoteRows ] : n \in 0 .. MaxVotes }

(* slip: a reshare counts as much as an original *)
VoteWeight_Equal(is_retweet) == 2

(* 1.0 for a vote on an original tweet, 0.5 for a vote on a reshare *)
VoteWeight(is_retweet) == IF is_retweet THEN 1 ELSE 2

(* weighted-up / (weighted-up + weighted-down), 0 when the denominator is 0 *)
Reputation(weighted_up, weighted_down) ==
    IF weighted_up + weighted_down = 0
    THEN [ num |-> 0, den |-> 1 ]
    ELSE [ num |-> weighted_up, den |-> weighted_up + weighted_down ]

(* a >= b for two fractions with positive denominators *)
AtLeast(a, b) == a.num * b.den >= b.num * a.den

RECURSIVE Accumulate(_)
(* one accumulator per author, in the order the authors first appear; a    *)
(* row whose tweet is not resolved is skipped                              *)
Accumulate(rows) ==
    IF rows = << >> THEN << >>
    ELSE LET before == Accumulate(SubSeq(rows, 1, Len(rows) - 1))
             row    == rows[Len(rows)]
         IN  IF row.tweets = None THEN before
             ELSE LET tweet  == Val(row.tweets)
                      weight == VoteWeight(tweet.is_retweet)
                      add(e) == IF row.user_vote = "up"
                                THEN [ e EXCEPT !.up = @ + 1,
                                                !.weighted_up = @ + weight ]
                                ELSE [ e EXCEPT !.down = @ + 1,
                                                !.weighted_down = @ + weight ]
                      fresh  == [ author_username |-> tweet.author_username,
                                  up |-> 0, down |-> 0,
                                  weighted_up |-> 0, weighted_down |-> 0 ]
                  IN  IF \E i \in DOMAIN before :
                            before[i].author_username = tweet.author_username
                      THEN [ i \in DOMAIN before |->
                               IF before[i].author_username = tweet.author_username
                               THEN add(before[i]) ELSE before[i] ]
                      ELSE Append(before, add(fresh))

RECURSIVE InsertByScore_Ascending(_, _)
(* slip: the lowest score first *)
InsertByScore_Ascending(sorted, e) ==
    IF sorted = << >> THEN << e >>
    ELSE IF AtLeast(e.weighted_score, Head(sorted).weighted_score)
         THEN << Head(sorted) >> \o InsertByScore_Ascending(Tail(sorted), e)
         ELSE << e >> \o sorted

RECURSIVE InsertByScore(_, _)
InsertByScore(sorted, e) ==
    IF sorted = << >> THEN << e >>
    ELSE IF AtLeast(Head(sorted).weighted_score, e.weighted_score)
         THEN << Head(sorted) >> \o InsertByScore(Tail(sorted), e)
         ELSE << e >> \o sorted

RECURSIVE SortByScore(_)
(* the entries sorted by reputation score, highest first; entries with     *)
(* equal scores keep their order                                           *)
SortByScore(entries) ==
    IF entries = << >> THEN << >>
    ELSE InsertByScore(SortByScore(SubSeq(entries, 1, Len(entries) - 1)),
                       entries[Len(entries)])

GetAuthorStats(rows) ==
    LET accumulated == Accumulate(rows)
        entries == [ i \in DOMAIN accumulated |->
                       [ author_username |-> accumulated[i].author_username,
                         up              |-> accumulated[i].up,
                         down            |-> accumulated[i].down,
                         total_votes     |-> accumulated[i].up + accumulated[i].down,
                         weighted_up     |-> accumulated[i].weighted_up,
                         weighted_down   |-> accumulated[i].weighted_down,
                         weighted_score  |-> Reputation(accumulated[i].weighted_up,
                                                        accumulated[i].weighted_down) ] ]
    IN  SortByScore(entries)

AuthorStats ==
    /\ ~ probe.done
    /\ probe' = [ done  |-> TRUE,
                  rows  |-> probe.rows,
                  stats |-> GetAuthorStats(probe.rows) ]
    /\ UNCHANGED << settings, curator, tierVars, feedbackVars, runVars >>

StatsInit ==
    /\ settings = DefaultSettings
    /\ curator = DailyCuratorInit(settings)
    /\ probe \in [ done : { FALSE }, rows : VoteHistories ]
    /\ TierInit
    /\ FeedbackInit
    /\ RunIdle

StatsNext == AuthorStats

SpecStats == StatsInit /\ [][StatsNext]_vars


(***************************************************************************)
(* Overlap specification.  The daily job is                                *)
(* asyncio.create_task(self.run_daily_curation()): it does not wait for an *)
(* earlier run.  The steps of a run before the digest contain no await, so *)
(* another task can only run while a run waits inside send_daily_digest or *)
(* inside the error notification.                                          *)
(***************************************************************************)

(* the job fires while the run waits in its digest send: a new task starts *)
RunOverlapping ==
    /\ run.pc = "send"
    /\ suspended = None
    /\ run.number < MaxRuns
    /\ suspended' = Some([ run |-> run, stats |-> stats,
                           tweet_dicts |-> tweet_dicts, primary |-> primary ])
    /\ run' = [ NoRun EXCEPT !.number = run.number + 1 ]
    /\ stats' = NewStats
    /\ tweet_dicts' = EmptyMap
    /\ primary' = EmptyMap
    /\ UNCHANGED << ab_test_config, rag_config, tweets_table, experiment_scores,
                    channel >>
    /\ UNCHANGED << thresholdVars, tierVars, feedbackVars >>

(* the running task waits or has returned: the event loop resumes the task *)
(* that was waiting; number stays the count of the runs started            *)
RunSwitch ==
    /\ suspended # None
    /\ run.pc \in { "send", "failed", "returned" }
    /\ LET other == Val(suspended)
       IN  /\ run' = [ other.run EXCEPT !.number = run.number ]
           /\ stats' = other.stats
           /\ tweet_dicts' = other.tweet_dicts
           /\ primary' = other.primary
           /\ suspended' =
                 IF run.pc = "returned" THEN None
                 ELSE Some([ run |-> run, stats |-> stats,
                             tweet_dicts |-> tweet_dicts, primary |-> primary ])
    /\ UNCHANGED << ab_test_config, rag_config, tweets_table, experiment_scores,
                    channel >>
    /\ UNCHANGED << thresholdVars, tierVars, feedbackVars >>

(* the job fires after the run returned and no other task is waiting; at  *)
(* most two runs are unfinished at a time                                  *)
RunAgainAlone ==
    /\ suspended = None
    /\ RunAgain

OverlapNext ==
    \/ RunNext
    \/ RunAgainAlone
    \/ RunOverlapping
    \/ RunSwitch

SpecOverlap == RerunInit /\ [][OverlapNext]_vars


(***************************************************************************)
(* Race specification: two channels call toggle_favorite / toggle_mute on  *)
(* the same store.  A toggle is a store read (is_muted_author or           *)
(* is_favorite_author) followed by a store write chosen by what was read;  *)
(* the calls of the other channel can come between the two.                *)
(***************************************************************************)
ToggleOps == { "toggle_favorite", "toggle_mute" }

(* the read of a toggle: toggle_favorite asks whether the author is muted, *)
(* toggle_mute whether the author is a favorite                            *)
ToggleFound(op, username, sets) ==
    IF op = "toggle_favorite" THEN username \in sets.muted
    ELSE username \in sets.favorite

(* the write of a toggle, chosen by the answer of its read *)
ToggleWritten(op, username, found, sets) ==
    IF op = "toggle_favorite"
    THEN IF found THEN [ sets EXCEPT !.muted = @ \ { username } ]
         ELSE [ sets EXCEPT !.favorite = @ \cup { username } ]
    ELSE IF found THEN [ sets EXCEPT !.favorite = @ \ { username } ]
         ELSE [ sets EXCEPT !.muted = @ \cup { username } ]

TierSets == [ favorite |-> favorite_authors, muted |-> muted_authors ]

ToggleRead(c, op, raw) ==
    /\ inflight.calls[c].pc = "idle"
    /\ LET username == NormalizeUsername(raw)
       IN  inflight' = [ inflight EXCEPT !.calls[c] =
                           [ pc       |-> "read",
                             op       |-> op,
                             username |-> username,
                             found    |-> ToggleFound(op, username, TierSets) ] ]
    /\ UNCHANGED << favorite_authors, muted_authors, toggle, prev_toggle >>
    /\ UNCHANGED << thresholdVars, feedbackVars, runVars >>

ToggleWrite(c) ==
    /\ inflight.calls[c].pc = "read"
    /\ LET call    == inflight.calls[c]
           written == ToggleWritten(call.op, call.username, call.found, TierSets)
       IN  /\ favorite_authors' = written.favorite
           /\ muted_authors' = written.muted
           /\ inflight' = [ inflight EXCEPT !.calls[c].pc = "done" ]
    /\ UNCHANGED << toggle, prev_toggle >>
    /\ UNCHANGED << thresholdVars, feedbackVars, runVars >>

(* the tier sets start disjoint and are remembered in start *)
RaceInit ==
    /\ settings = DefaultSettings
    /\ curator = DailyCuratorInit(settings)
    /\ probe = NoProbe
    /\ favorite_authors \in SUBSET Handles
    /\ muted_authors \in SUBSET Handles
    /\ favorite_authors \cap muted_authors = { }
    /\ toggle = NoToggle
    /\ prev_toggle = NoToggle
    /\ inflight = [ start |-> Some(TierSets),
                    calls |-> [ c \in Channels |-> NoCall ] ]
    /\ FeedbackInit
    /\ RunIdle

RaceNext ==
    \/ \E c \in Channels, op \in ToggleOps, raw \in RawUsernames : ToggleRead(c, op, raw)
    \/ \E c \in Channels : ToggleWrite(c)

SpecRace == RaceInit /\ [][RaceNext]_vars


(***************************************************************************)
(* The feedback state machine under fair scheduling: the event loop runs   *)
(* every task that can run, so a sleep that has elapsed is resumed and an  *)
(* awaited edit of the message controls returns or raises.  What the       *)
(* reader presses is not forced.                                           *)
(***************************************************************************)
TaskFairness ==
    /\ \A k \in 1 .. MaxTasks :
          /\ WF_vars(\E insert_ok \in BOOLEAN, outcome \in PossibleEmbedOutcomes(rag_config) : SaveAfterDelay(k, insert_ok, outcome))
          /\ WF_vars(\E edit_ok \in BOOLEAN : SaveAfterDelayFinish(k, edit_ok))
    /\ WF_vars(\E edit_ok \in BOOLEAN : ReasonEdit(edit_ok))
    /\ WF_vars(\E edit_ok \in BOOLEAN : UndoEdit(edit_ok))

SpecFeedbackFair == TiersInit /\ [][FeedbackNext]_vars /\ TaskFairness


(***************************************************************************)
(* Persist specification: one curation run from the empty store, under the *)
(* default settings and under settings whose favorite offset is negative,  *)
(* so that the floor handed to the scorer lies above the default and muted *)
(* thresholds.                                                             *)
(***************************************************************************)
PersistSettings ==
    { DefaultSettings,
      [ filter_threshold          |-> 50,
        favorite_threshold_offset |-> 0 - 20,
        muted_threshold_offset    |-> 15 ] }

PersistInit ==
    /\ settings \in PersistSettings
    /\ curator = DailyCuratorInit(settings)
    /\ probe = NoProbe
    /\ favorite_authors \in { { }, { << "a" >> } }
    /\ muted_authors \in { { }, { << "b" >> } }
    /\ toggle = NoToggle
    /\ prev_toggle = NoToggle
    /\ inflight = NoCalls
    /\ FeedbackInit
    /\ RunIdle

SpecPersist == PersistInit /\ [][RunNext]_vars


(***************************************************************************)
(* TwitterClient._fetch_with_retry, _get_user_with_retry and               *)
(* _get_user_tweets_with_retry (twitter_client.py): the same loop around   *)
(* three client calls.  An attempt returns a response, raises a            *)
(* tweepy.TweepyException (of one of its subclasses) or raises another     *)
(* exception.                                                              *)
(***************************************************************************)
DefaultMaxRetries == 3

RetryCalls == { "get_home_timeline", "get_user", "get_users_tweets" }

Responses == { "page", "empty_page" }

TweepyExceptions == { "TooManyRequests", "TwitterServerError" }

OtherExceptions == { "ConnectionError" }

AttemptOutcomes == Responses \cup TweepyExceptions \cup OtherExceptions

RECURSIVE Pow2(_)
Pow2(n) == IF n = 0 THEN 1 ELSE 2 * Pow2(n - 1)

(* wait_time = 2 ** (attempt + 1) *)
WaitTime(attempt) == Pow2(attempt + 1)

(* slip: the last attempt is retried like the others *)
LastAttempt_Never(attempt, max_retries) == FALSE

(* the else branch of "if attempt < max_retries - 1" *)
LastAttempt(attempt, max_retries) == ~ (attempt < max_retries - 1)

(* one pass of the loop body: the client call and its except clause *)
RetryAttempt(outcome) ==
    /\ probe.pc = "attempt"
    /\ probe' =
         [ probe EXCEPT
             !.outcomes = Append(@, outcome),
             !.pc = CASE outcome \in Responses -> "returned"
                      [] outcome \in OtherExceptions -> "raised"
                      [] LastAttempt(probe.attempt, probe.max_retries) -> "raised"
                      [] OTHER -> "sleep",
             !.result = CASE outcome \in Responses -> Some(outcome)
                          [] outcome \in OtherExceptions -> Some(outcome)
                          [] LastAttempt(probe.attempt, probe.max_retries) -> Some(outcome)
                          [] OTHER -> None ]
    /\ UNCHANGED << settings, curator, tierVars, feedbackVars, runVars >>

(* time.sleep(wait_time) returns and the loop goes to its next pass, or    *)
(* ends when range(max_retries) is used up and the function returns None   *)
RetrySleep ==
    /\ probe.pc = "sleep"
    /\ probe' =
         [ probe EXCEPT
             !.waits = Append(@, WaitTime(probe.attempt)),
             !.attempt = @ + 1,
             !.pc = IF probe.attempt + 1 < probe.max_retries THEN "attempt"
                    ELSE "returned" ]
    /\ UNCHANGED << settings, curator, tierVars, feedbackVars, runVars >>

RetryInit ==
    /\ settings = DefaultSettings
    /\ curator = DailyCuratorInit(settings)
    /\ probe \in [ call : RetryCalls, max_retries : { DefaultMaxRetries },
                   pc : { "attempt" }, attempt : { 0 }, outcomes : { << >> },
                   waits : { << >> }, result : { None } ]
    /\ TierInit
    /\ FeedbackInit
    /\ RunIdle

RetryNext ==
    \/ \E outcome \in AttemptOutcomes : RetryAttempt(outcome)
    \/ RetrySleep

(* the loop is synchronous code: once called it runs to its end *)
SpecRetry == RetryInit /\ [][RetryNext]_vars /\ WF_vars(RetryNext)

(***************************************************************************)
(* Properties                                                              *)
(***************************************************************************)

(* C5: after any sequence of toggle_favorite and toggle_mute calls, with   *)
(* any outcome of their store lookups and writes, no author is in both the *)
(* favorite set and the muted set.                                         *)
C5_TierSetsDisjoint == favorite_authors \cap muted_authors = { }

SameCall(a, b) == a.op = b.op /\ a.username = b.username

(* C6: a returning toggle_favorite on an author who is not muted reports   *)
(* "favorited" and the author is a favorite; repeated, it reports          *)
(* "favorited" again and changes neither set; on a muted author it         *)
(* reports "unmuted", removes the author from muted and does not add the   *)
(* author to favorite.  toggle_mute mirrors this.                          *)
C6_ToggleReports ==
    /\ (toggle.op = "toggle_favorite" /\ toggle.result # "raised") =>
          /\ toggle.username \notin toggle.pre_muted =>
                /\ toggle.result = "favorited"
                /\ toggle.username \in favorite_authors
          /\ toggle.username \in toggle.pre_muted =>
                /\ toggle.result = "unmuted"
                /\ toggle.username \notin muted_authors
                /\ favorite_authors = toggle.pre_favorite
          /\ (SameCall(prev_toggle, toggle) /\ prev_toggle.result = "favorited") =>
                /\ toggle.result = "favorited"
                /\ favorite_authors = toggle.pre_favorite
                /\ muted_authors = toggle.pre_muted
    /\ (toggle.op = "toggle_mute" /\ toggle.result # "raised") =>
          /\ toggle.username \notin toggle.pre_favorite =>
                /\ toggle.result = "muted"
                /\ toggle.username \in muted_authors
          /\ toggle.username \in toggle.pre_favorite =>
                /\ toggle.result = "unfavorited"
                /\ toggle.username \notin favorite_authors
                /\ muted_authors = toggle.pre_muted
          /\ (SameCall(prev_toggle, toggle) /\ prev_toggle.result = "muted") =>
                /\ toggle.result = "muted"
                /\ favorite_authors = toggle.pre_favorite
                /\ muted_authors = toggle.pre_muted

(* C2 as stated: an undo handled after the item's save task has recorded   *)
(* the vote is a no-op reported as too late: it never acts on that task,   *)
(* neither cancelling it nor removing its pending entry.                   *)
C2_UndoAfterCommitTooLate ==
    \A k \in DOMAIN tasks :
        tasks[k].recorded # "no" => tasks[k].undone = "no"

(* C3: a save task undone while it was still in its delay is cancelled,    *)
(* no pending entry refers to it, and its vote is never recorded.          *)
C3_UndoInTimeNeverRecorded ==
    \A k \in DOMAIN tasks :
        tasks[k].undone = "in_time" =>
          /\ tasks[k].state = "cancelled"
          /\ tasks[k].recorded = "no"
          /\ \A t \in DOMAIN pending_feedback : pending_feedback[t].task # k

C3_Witness ==
    \E k \in DOMAIN tasks, j \in DOMAIN tasks :
        /\ k < j
        /\ tasks[k].tweet_id = tasks[j].tweet_id
        /\ tasks[k].undone = "in_time"
        /\ tasks[j].recorded # "no"
        /\ tasks[j].state = "done"

(* C4: an item never has two live save tasks, a live task is the one its   *)
(* pending entry names, the prior task is no longer live while the new     *)
(* reason is being processed, and a task never records its vote after a    *)
(* newer reason was chosen for the item.                                   *)
C4_OnePendingNewestWins ==
    /\ \A t \in FeedbackItems :
          Cardinality({ k \in DOMAIN tasks :
              tasks[k].tweet_id = t /\ Live(tasks[k]) }) <= 1
    /\ \A k \in DOMAIN tasks :
          Live(tasks[k]) =>
            /\ tasks[k].tweet_id \in DOMAIN pending_feedback
            /\ pending_feedback[tasks[k].tweet_id].task = k
    /\ handler.pc = "reason_edit" =>
          \A k \in DOMAIN tasks :
              tasks[k].tweet_id = handler.tweet_id => ~ Live(tasks[k])
    /\ \A k \in DOMAIN tasks : tasks[k].recorded # "superseded"

C4_Witness ==
    \E k \in DOMAIN tasks, j \in DOMAIN tasks :
        /\ k < j
        /\ tasks[k].tweet_id = tasks[j].tweet_id
        /\ tasks[k].state = "cancelled"
        /\ tasks[k].undone = "no"
        /\ tasks[k].recorded = "no"
        /\ tasks[j].recorded = "newest"

NonNegativeOffsets ==
    /\ settings.favorite_threshold_offset >= 0
    /\ settings.muted_threshold_offset >= 0

FloorIsLowest ==
    /\ curator.filter_threshold <= curator.favorite_author_threshold
    /\ curator.filter_threshold <= curator.default_threshold
    /\ curator.filter_threshold <= curator.muted_author_threshold

NotExcludedByFloor ==
    (probe.done /\ probe.score >= probe.threshold) => probe.in_scored

ProbeTweet == [ tweet_id |-> "p", author_username |-> ProbeAuthor,
                filter_score |-> probe.score ]

(* C9: with non-negative offsets muted >= default >= favorite threshold,   *)
(* and a score that passes as a muted author's also passes as a default    *)
(* author's and as a favorite author's.                                    *)
C9_TierMonotone ==
    NonNegativeOffsets =>
      /\ curator.muted_author_threshold >= curator.default_threshold
      /\ curator.default_threshold >= curator.favorite_author_threshold
      /\ (probe.done /\ Passed(curator, ProbeTweet, { Lower(ProbeAuthor) }, { })) =>
            /\ Passed(curator, ProbeTweet, { }, { })
            /\ Passed(curator, ProbeTweet, { }, { Lower(ProbeAuthor) })

C9_Witness ==
    /\ NonNegativeOffsets
    /\ settings.favorite_threshold_offset > 0
    /\ settings.muted_threshold_offset > 0
    /\ probe.done
    /\ probe.tier = "muted"
    /\ probe.passed

(* the threshold of the tier of an author, as the run loaded the tier sets *)
RunTierThreshold(author) ==
    IF author \in run.muted_authors THEN curator.muted_author_threshold
    ELSE IF author \in run.favorite_authors_set THEN curator.favorite_author_threshold
    ELSE curator.default_threshold

(* the tweets that pass according to the primary scores alone *)
PrimaryPassing ==
    { id \in SeqToSet(run.tweets_for_filtering) :
        /\ primary[id].filter_score >= curator.filter_threshold
        /\ primary[id].filter_score >=
              RunTierThreshold(Lower(primary[id].author_username)) }

ShadowOver == primary # EmptyMap /\ run.pc # "shadow"

TiersDecided == "tier_breakdown" \in DOMAIN stats

TweetsSaved ==
    \/ run.pc \in { "send", "mark" }
    \/ "completed_at" \in DOMAIN stats
    \/ \E i \in DOMAIN stats.errors :
          stats.errors[i] \in { "send_message", "mark_tweet_sent" }

(* C1: whatever the shadow stage does (disabled, succeeded, failed at a    *)
(* missing configuration key, at the challenger scoring or at the save),   *)
(* no failure of it reaches the top-level error handler, the scores of     *)
(* the tweets stay those of the primary scoring call, and the passing set, *)
(* the persisted score and flag of every tweet and the delivered tweets    *)
(* are those the primary scores alone determine.                           *)
C1_ShadowIsolated ==
    /\ \A i \in DOMAIN stats.errors : stats.errors[i] \notin ShadowFailures
    /\ ShadowOver =>
          /\ run.pc = "tiers" => tweet_dicts = primary
          /\ \A id \in SeqToSet(run.tweets_for_filtering) :
                tweet_dicts[id].filter_score = primary[id].filter_score
          /\ SeqToSet(run.scored_tweets) =
                { id \in SeqToSet(run.tweets_for_filtering) :
                    primary[id].filter_score >= curator.filter_threshold }
    /\ TiersDecided => SeqToSet(run.filtered_tweets) = PrimaryPassing
    /\ TweetsSaved =>
          \A id \in SeqToSet(run.new_tweets) :
             /\ id \in DOMAIN tweets_table
             /\ tweets_table[id].filter_score =
                   IF id \in SeqToSet(run.tweets_for_filtering)
                   THEN Some(primary[id].filter_score) ELSE None
             /\ tweets_table[id].filtered = (id \in PrimaryPassing)
    /\ channel # { } => channel \subseteq PrimaryPassing

(* a run whose shadow scoring raised went on to save and deliver *)
C1_Witness ==
    /\ "ab_test_error" \in DOMAIN stats
    /\ stats.ab_test_error = "score_tweets_with_prompt"
    /\ "completed_at" \in DOMAIN stats
    /\ stats.errors = << >>
    /\ channel # { }

(* C7: in the tiered pass a tweet is put in the passing set exactly when   *)
(* its score is at or above the threshold of its author's tier, the tier   *)
(* being muted if the lower-cased author is in the muted set, else         *)
(* favorite if it is in the favorite set, else default; so tweets that all *)
(* score 65 under thresholds 50 / 70 / 85 yield exactly those of favorite  *)
(* authors.                                                                *)
C7_TieredPass ==
    TiersDecided =>
       /\ SeqToSet(run.filtered_tweets) \subseteq SeqToSet(run.scored_tweets)
       /\ \A id \in SeqToSet(run.scored_tweets) :
             id \in SeqToSet(run.filtered_tweets)
                <=> tweet_dicts[id].filter_score >=
                       RunTierThreshold(Lower(tweet_dicts[id].author_username))
       /\ ( /\ curator.favorite_author_threshold = 50
            /\ curator.default_threshold = 70
            /\ curator.muted_author_threshold = 85
            /\ \A id \in SeqToSet(run.scored_tweets) :
                  tweet_dicts[id].filter_score = 65 )
          => SeqToSet(run.filtered_tweets) =
                { id \in SeqToSet(run.scored_tweets) :
                    /\ Lower(tweet_dicts[id].author_username) \in run.favorite_authors_set
                    /\ Lower(tweet_dicts[id].author_username) \notin run.muted_authors }

(* two tweets at 65: the favorite author's passes, the other one does not *)
C7_Witness ==
    /\ TiersDecided
    /\ \E id \in SeqToSet(run.filtered_tweets) :
          /\ tweet_dicts[id].filter_score = 65
          /\ tweet_dicts[id].author_username = << "A" >>
          /\ << "a" >> \in run.favorite_authors_set
    /\ \E id \in SeqToSet(run.scored_tweets) \ SeqToSet(run.filtered_tweets) :
          tweet_dicts[id].filter_score = 65

(* the positions of the fetched tweets that have no scored record *)
NotYetScored ==
    { i \in DOMAIN run.tweets :
        ~ ( /\ run.tweets[i] \in DOMAIN tweets_table
            /\ tweets_table[run.tweets[i]].filter_score # None ) }

StoredScored ==
    { id \in DOMAIN tweets_table : tweets_table[id].filter_score # None }

(* C11: once a run has saved its tweets, every tweet it submitted to the   *)
(* scorer has a stored score (0 for those the scorer left out); a tweet    *)
(* with a stored score is dropped by the dedup step of every later run, is *)
(* never in a batch submitted to the scorer, and its stored score never    *)
(* changes.                                                                *)
C11_ScoredNeverResubmitted ==
    [][ /\ TweetsSaved' =>
             SeqToSet(run'.tweets_for_filtering) \subseteq StoredScored'
        /\ \A id \in StoredScored :
              /\ id \in StoredScored'
              /\ tweets_table'[id].filter_score = tweets_table[id].filter_score
        /\ (run.pc = "dedup" /\ run'.pc # "failed") =>
              SeqToSet(run'.new_tweets) \cap StoredScored = { }
        /\ (run.pc = "score" /\ run'.pc = "shadow") =>
              SeqToSet(run.tweets_for_filtering) \cap StoredScored = { }
      ]_vars

(* a later run fetched a tweet stored with score 0 and dropped it *)
C11_Witness ==
    /\ run.number > 1
    /\ run.pc \in { "load_tiers", "returned" }
    /\ "skipped_duplicates" \in DOMAIN stats
    /\ \E id \in SeqToSet(run.tweets) \ SeqToSet(run.new_tweets) :
          tweets_table[id].filter_score = Some(0)

RetweetsSkipped == "skipped_retweets" \in DOMAIN stats

(* the deduplicated tweets that are retweets of authors outside the        *)
(* favorite set                                                            *)
SuppressedRetweets ==
    { id \in SeqToSet(run.new_tweets) :
        /\ Catalog[id].is_retweet
        /\ Lower(Catalog[id].author_username) \notin favorite_authors }

(* C12: of the tweets that survived deduplication, the batch for the       *)
(* scorer holds exactly those that are not retweets of an author outside   *)
(* the favorite set, and stats["skipped_retweets"] is the number of        *)
(* deduplicated tweets left out.                                           *)
C12_RetweetSuppression ==
    RetweetsSkipped =>
       /\ SeqToSet(run.tweets_for_filtering) =
             SeqToSet(run.new_tweets) \ SuppressedRetweets
       /\ Len(run.tweets_for_filtering) =
             Cardinality(SeqToSet(run.tweets_for_filtering))
       /\ stats.skipped_retweets = Cardinality(SuppressedRetweets)
       /\ primary # EmptyMap =>
             { id \in DOMAIN primary : "filter_score" \in DOMAIN primary[id] }
                = SeqToSet(run.tweets_for_filtering)

(* a retweet of a non-favorite author was left out, another tweet went on *)
C12_Witness ==
    /\ RetweetsSkipped
    /\ stats.skipped_retweets = 1
    /\ run.pc = "shadow"
    /\ \E id \in SeqToSet(run.tweets_for_filtering) :
          "filter_score" \in DOMAIN primary[id]

(* retrieval is off, the embedding manager is absent or disabled, or the   *)
(* similarity lookup found nothing or raised                               *)
NoContextCase ==
    \/ ~ rag_config.rag_enabled
    \/ rag_config.embedding_manager \in { "absent", "disabled" }
    \/ run.lookup \in { "nothing", "raises" }

(* C13: when retrieval is disabled, the embedding manager is absent or     *)
(* disabled, the similarity lookup returns nothing or the lookup raises,   *)
(* the scorer is called with the batch, the floor threshold and no context *)
(* block, and the lookup failure is not an error of the run.               *)
C13_NoContextSameInput ==
    /\ \A i \in DOMAIN stats.errors :
          stats.errors[i] # "find_similar_voted_tweets"
    /\ (run.lookup = "raises" /\ run.pc # "score") => run.scorer_input # None
    /\ (run.scorer_input # None /\ NoContextCase) =>
          Val(run.scorer_input) =
             [ tweets      |-> run.tweets_for_filtering,
               threshold   |-> curator.filter_threshold,
               rag_context |-> None ]

(* the lookup raised and the run went on to score the batch and finish *)
C13_Witness ==
    /\ run.lookup = "raises"
    /\ run.scorer_input # None
    /\ "completed_at" \in DOMAIN stats

(* every match the store returned, over all the queries *)
AllMatches ==
    UNION { SeqToSet(probe.per_item[q]) : q \in DOMAIN probe.per_item }

(* the highest similarity the store reported for a tweet *)
BestSimilarity(id) ==
    CHOOSE v \in { m.similarity : m \in { n \in AllMatches : n.tweet_id = id } } :
        \A m \in AllMatches : m.tweet_id = id => m.similarity <= v

(* C14 as stated: find_similar_voted_tweets returns at most limit matches, *)
(* no two for the same tweet, in descending order of similarity, and they  *)
(* are the limit tweets with the highest similarity the store reported     *)
(* over all the per-tweet result lists.                                    *)
C14_GloballyTopK ==
    probe.done =>
       LET similar  == probe.similar
           returned == { similar[i].tweet_id : i \in DOMAIN similar }
           found    == { m.tweet_id : m \in AllMatches }
       IN  /\ Len(similar) <= probe.limit
           /\ Cardinality(returned) = Len(similar)
           /\ \A i \in DOMAIN similar, j \in DOMAIN similar :
                 i < j => similar[i].similarity >= similar[j].similarity
           /\ returned \subseteq found
           /\ Len(similar) = IF Cardinality(found) < probe.limit
                             THEN Cardinality(found) ELSE probe.limit
           /\ \A a \in returned, b \in found \ returned :
                 BestSimilarity(a) >= BestSimilarity(b)

(* the ids the parsed answer covers *)
Covered == { probe.scores[i].tweet_id : i \in DOMAIN probe.scores }

(* C15 as stated: for every text the scorer can return, response parsing   *)
(* returns a possibly empty list of entries with tweet_id, score and       *)
(* reason and raises nothing, and every tweet of the batch the list does   *)
(* not cover ends with score 0.                                            *)
C15_ParseNeverRaises ==
    probe.done =>
       /\ probe.raised = "none"
       /\ \A i \in DOMAIN probe.scores :
             DOMAIN probe.scores[i] = { "tweet_id", "score", "reason" }
       /\ \A id \in SeqToSet(ParseBatch) \ Covered :
             /\ "filter_score" \in DOMAIN probe.tweets[id]
             /\ probe.tweets[id].filter_score = 0

(* the tweet dict carries what the scorer's entry for it says *)
CarriesAnswer(t) ==
    \E i \in DOMAIN probe.scores :
       /\ probe.scores[i].tweet_id = t.tweet_id
       /\ t.filter_score = probe.scores[i].score
       /\ t.filter_reason = probe.scores[i].reason
       /\ t.filtered = (probe.scores[i].score >= curator.filter_threshold)

(* C16: after filter_tweets returns normally, every tweet of the submitted *)
(* batch carries a score, a reason and a filtered flag: a tweet the scorer *)
(* answered for carries the returned score, a tweet absent from the answer *)
(* carries score 0 and is failing, and answers for ids outside the batch   *)
(* change nothing.                                                         *)
C16_EveryItemScored ==
    (probe.done /\ probe.raised = "none") =>
       /\ DOMAIN probe.tweets = DOMAIN Catalog
       /\ \A id \in SeqToSet(ParseBatch) :
             LET t == probe.tweets[id]
             IN  /\ { "filter_score", "filter_reason", "filtered" } \subseteq DOMAIN t
                 /\ t.filter_score \in Int
                 /\ id \in Covered => CarriesAnswer(t)
                 /\ id \notin Covered =>
                       /\ t.filter_score = 0
                       /\ t.filter_reason = NotScoredReason
                       /\ t.filtered = FALSE
       /\ \A id \in DOMAIN Catalog \ SeqToSet(ParseBatch) :
             probe.tweets[id] = Catalog[id]

(* an answer that covers tweet 1, leaves tweet 2 out and names tweet 3,    *)
(* which is not in the batch                                               *)
C16_Witness ==
    /\ probe.done
    /\ probe.raised = "none"
    /\ "1" \in Covered
    /\ "2" \notin Covered
    /\ "3" \in Covered
    /\ probe.tweets["2"].filter_score = 0

(* C17: run_daily_curation never raises: a failure of the fetch client,    *)
(* the scorer call, the store or the digest send takes the run to the      *)
(* top-level handler with its message appended once to stats["errors"],    *)
(* the handler attempts the error notification, whose own failure is       *)
(* swallowed, and the run returns the statistics as they were at the       *)
(* failure.                                                                *)
C17_RunNeverRaises ==
    [][ /\ run'.pc # "raised"
        /\ (run.pc # "failed" /\ run'.pc = "failed") =>
              /\ Len(stats'.errors) = Len(stats.errors) + 1
              /\ Len(stats'.errors) = 1
              /\ run'.notified = "no"
        /\ run'.pc # "failed" => stats'.errors = stats.errors
        /\ run.pc = "failed" =>
              /\ run'.pc = "returned"
              /\ run'.notified \in { "sent", "send_failed" }
              /\ stats' = stats ]_vars

(* a run that fetched tweets, failed later, could not send the error       *)
(* notification and still returned its statistics                          *)
C17_Witness ==
    /\ run.pc = "returned"
    /\ run.notified = "send_failed"
    /\ Len(stats.errors) = 1
    /\ stats.fetched > 0

(* task k calls the feedback callback in this step *)
Commits(k) ==
    /\ k \in DOMAIN tasks
    /\ tasks[k].embed.step = "not_committed"
    /\ tasks'[k].embed.step # "not_committed"

(* C18: when the store write of a vote fails at commit time, no exception  *)
(* reaches the channel code and the delayed task goes on to the edit that  *)
(* removes the undo control and then removes the pending entry; no         *)
(* embedding is generated; the vote is not written later and what the      *)
(* reader sees is not rolled back.                                         *)
C18_CommitFailureContained ==
    [][ \A k \in DOMAIN tasks :
          LET t == tasks[k].tweet_id
          IN  /\ (Commits(k) /\ tasks'[k].embed.step = "vote_failed") =>
                    /\ tasks'[k].state = "editing"
                    /\ ~ tasks'[k].embed.raised
                    /\ ~ tasks'[k].embed.generated
                    /\ ~ tasks'[k].embed.written
                    /\ feedback' = feedback
                    /\ embeddings_table' = embeddings_table
                    /\ reply_markup' = reply_markup
                    /\ pending_feedback' = pending_feedback
              /\ tasks[k].embed.step = "vote_failed" =>
                    /\ tasks'[k].embed = tasks[k].embed
                    /\ tasks'[k].recorded = "no"
                    /\ feedback' # feedback => \E j \in DOMAIN tasks \ { k } : Commits(j)
                    /\ (tasks[k].state = "editing" /\ tasks'[k].state = "done") =>
                          /\ t \notin DOMAIN pending_feedback'
                          /\ reply_markup'[t] \in { "voted", reply_markup[t] } ]_vars

(* a commit whose vote write failed under an enabled provider: the task is *)
(* done, the undo control and the pending entry are gone, and no vote and  *)
(* no embedding were written                                               *)
C18_Witness ==
    /\ ManagerEnabled(rag_config)
    /\ \E k \in DOMAIN tasks :
          /\ tasks[k].embed.step = "vote_failed"
          /\ tasks[k].state = "done"
          /\ tasks[k].tweet_id \notin DOMAIN pending_feedback
          /\ reply_markup[tasks[k].tweet_id] = "voted"
    /\ feedback = << >>
    /\ embeddings_table = { }

(* the vote of the task is a row of the feedback table *)
VoteRecorded(task) ==
    \E i \in DOMAIN feedback :
       /\ feedback[i].tweet_id = task.tweet_id
       /\ feedback[i].user_vote = task.vote
       /\ feedback[i].notes = task.reason

(* C19: if a step of the embedding generation at commit time fails (the    *)
(* existence check, the tweet lookup, the embedding call or the embedding  *)
(* write), the failure is caught, the vote written before it stays         *)
(* recorded and nothing is raised to the caller.                           *)
C19_EmbeddingFailureContained ==
    \A k \in DOMAIN tasks :
       tasks[k].embed.failure # "none" =>
          /\ ~ tasks[k].embed.raised
          /\ ~ tasks[k].embed.written
          /\ tasks[k].recorded # "no"
          /\ VoteRecorded(tasks[k])
          /\ tasks[k].state \in { "editing", "done", "cancelled" }

(* one commit failed at the existence check and another at the embedding   *)
(* write, and both votes are recorded                                      *)
C19_Witness ==
    \E j \in DOMAIN tasks, k \in DOMAIN tasks :
       /\ tasks[j].embed.failure = "has_embedding"
       /\ tasks[k].embed.failure = "save_embedding"
       /\ VoteRecorded(tasks[j])
       /\ VoteRecorded(tasks[k])
       /\ Len(feedback) = 2

(* C20: a vote commit generates and stores an embedding for the voted      *)
(* tweet only after the vote write succeeded, only under an enabled        *)
(* provider and only when the store has no embedding for the tweet; over   *)
(* any sequence of commits a tweet that has an embedding never gets one    *)
(* generated or written again.                                             *)
C20_EmbeddingOnce ==
    [][ /\ embeddings_table \subseteq embeddings_table'
        /\ \A k \in DOMAIN tasks :
              Commits(k) =>
                 LET e == tasks'[k].embed
                     t == tasks[k].tweet_id
                 IN  /\ e.generated =>
                           /\ tasks'[k].recorded # "no"
                           /\ ManagerEnabled(rag_config)
                           /\ t \notin embeddings_table
                     /\ e.written => e.generated
                     /\ embeddings_table' =
                           IF e.written THEN embeddings_table \cup { t }
                           ELSE embeddings_table
        /\ (\A k \in DOMAIN tasks : ~ Commits(k)) =>
              embeddings_table' = embeddings_table ]_vars

(* a commit wrote the embedding of a tweet and a later commit for the same *)
(* tweet found it and generated nothing                                    *)
C20_Witness ==
    \E j \in DOMAIN tasks, k \in DOMAIN tasks :
       /\ j < k
       /\ tasks[j].tweet_id = tasks[k].tweet_id
       /\ tasks[j].embed.written
       /\ tasks[k].embed.step = "embedding"
       /\ tasks[k].embed.had
       /\ ~ tasks[k].embed.generated
       /\ tasks[k].recorded # "no"

(* C21 as stated: a vote that is neither up nor down is rejected where it  *)
(* enters, before any store write: no such vote is ever staged as a        *)
(* pending save or recorded in the feedback table.                         *)
C21_InvalidVoteRejected ==
    /\ \A k \in DOMAIN tasks : tasks[k].vote \in { "up", "down" }
    /\ \A i \in DOMAIN feedback : feedback[i].user_vote \in { "up", "down" }

(* the votes of the history with the given polarity and reshare flag whose *)
(* tweet resolves to the author                                            *)
VotesOf(author, vote, is_retweet) ==
    { i \in DOMAIN probe.rows :
         /\ probe.rows[i].tweets # None
         /\ Val(probe.rows[i].tweets).author_username = author
         /\ Val(probe.rows[i].tweets).is_retweet = is_retweet
         /\ probe.rows[i].user_vote = vote }

(* C22: for every author and every vote history, weighted-up and           *)
(* weighted-down add 1.0 for a vote on an original tweet and 0.5 for a     *)
(* vote on a reshare (2 and 1 in halves), the reputation score equals      *)
(* weighted-up / (weighted-up + weighted-down) and lies in [0,1], and it   *)
(* is 0 when the denominator is 0.                                         *)
C22_WeightedReputation ==
    /\ Reputation(0, 0).num = 0
    /\ Reputation(0, 0).den > 0
    /\ probe.done =>
          \A i \in DOMAIN probe.stats :
             LET e  == probe.stats[i]
                 wu == 2 * Cardinality(VotesOf(e.author_username, "up", FALSE))
                       + Cardinality(VotesOf(e.author_username, "up", TRUE))
                 wd == 2 * Cardinality(VotesOf(e.author_username, "down", FALSE))
                       + Cardinality(VotesOf(e.author_username, "down", TRUE))
             IN  /\ e.weighted_up = wu
                 /\ e.weighted_down = wd
                 /\ e.weighted_score.den > 0
                 /\ e.weighted_score.num * (wu + wd) = wu * e.weighted_score.den
                 /\ 0 <= e.weighted_score.num
                 /\ e.weighted_score.num <= e.weighted_score.den

(* one up-vote on an original tweet and one down-vote on a reshare of the  *)
(* same author give 1.0 / 1.5                                              *)
C22_Witness ==
    /\ probe.done
    /\ Len(probe.rows) = 2
    /\ VotesOf("a", "up", FALSE) = { 1 }
    /\ VotesOf("a", "down", TRUE) = { 2 }
    /\ Len(probe.stats) = 1
    /\ probe.stats[1].weighted_score = [ num |-> 2, den |-> 3 ]

(* the authors of the votes whose tweet resolves *)
ResolvedAuthors ==
    { Val(probe.rows[i].tweets).author_username :
         i \in { j \in DOMAIN probe.rows : probe.rows[j].tweets # None } }

(* C23: the author stats have one entry per author with at least one vote  *)
(* whose tweet resolves, a vote whose tweet cannot be resolved contributes *)
(* to no entry, and the entries are in non-increasing order of reputation  *)
(* score.                                                                  *)
C23_OneEntryPerAuthorSorted ==
    probe.done =>
       LET listed == probe.stats
       IN  /\ { listed[i].author_username : i \in DOMAIN listed } = ResolvedAuthors
           /\ Len(listed) = Cardinality(ResolvedAuthors)
           /\ \A i \in DOMAIN listed :
                 /\ listed[i].up =
                       Cardinality(VotesOf(listed[i].author_username, "up", FALSE)
                                   \cup VotesOf(listed[i].author_username, "up", TRUE))
                 /\ listed[i].down =
                       Cardinality(VotesOf(listed[i].author_username, "down", FALSE)
                                   \cup VotesOf(listed[i].author_username, "down", TRUE))
                 /\ listed[i].total_votes = listed[i].up + listed[i].down
           /\ \A i \in DOMAIN listed, j \in DOMAIN listed :
                 i < j => AtLeast(listed[i].weighted_score, listed[j].weighted_score)

(* a history with an unresolved vote in which the author who appears first *)
(* has the lower score and comes second in the output                      *)
C23_Witness ==
    /\ probe.done
    /\ \E i \in DOMAIN probe.rows : probe.rows[i].tweets = None
    /\ Len(probe.rows) = 3
    /\ Len(probe.stats) = 2
    /\ probe.rows[1].tweets # None
    /\ probe.stats[2].author_username = Val(probe.rows[1].tweets).author_username
    /\ ~ AtLeast(probe.stats[2].weighted_score, probe.stats[1].weighted_score)

(* C24 as stated: at most one curation run is active at any time; no run   *)
(* is started while an earlier run has not finished.                       *)
C24_OneRunActive ==
    suspended # None =>
       \/ run.pc = "returned"
       \/ Val(suspended).run.pc = "returned"

(* the tier sets after the whole toggle of a call, run on its own *)
ToggleAlone(call, sets) ==
    ToggleWritten(call.op, call.username,
                  ToggleFound(call.op, call.username, sets), sets)

(* C25 as stated: when two toggles on the same author interleave between   *)
(* their store read and their store write, the final tier sets are those   *)
(* some serial order of the two toggles produces, and the author is not    *)
(* in both the favorite and the muted set.                                 *)
C25_TogglesSerializable ==
    LET first  == inflight.calls[1]
        second == inflight.calls[2]
    IN  (/\ first.pc = "done"
         /\ second.pc = "done"
         /\ first.username = second.username) =>
           /\ TierSets \in { ToggleAlone(second, ToggleAlone(first, Val(inflight.start))),
                             ToggleAlone(first, ToggleAlone(second, Val(inflight.start))) }
           /\ first.username \notin favorite_authors \cap muted_authors

(* what the program holds for one item: its pending entry, its delayed     *)
(* tasks and its recorded votes                                            *)
ItemView(t) ==
    [ entry |-> IF t \in DOMAIN pending_feedback THEN Some(pending_feedback[t])
                ELSE None,
      tasks |-> [ k \in { j \in DOMAIN tasks : tasks[j].tweet_id = t } |-> tasks[k] ],
      votes |-> SelectSeq(feedback, LAMBDA row : row.tweet_id = t) ]

(* the step is one of the reason handler, the undo handler or a delayed    *)
(* task of item t                                                          *)
ActsOn(t) ==
    \/ /\ handler.pc = "idle"
       /\ handler'.pc # "idle"
       /\ handler'.tweet_id = t
    \/ /\ handler.pc # "idle"
       /\ handler'.pc = "idle"
       /\ handler.tweet_id = t
    \/ /\ handler' = handler
       /\ \E k \in DOMAIN tasks :
             /\ tasks[k].tweet_id = t
             /\ tasks'[k].state # tasks[k].state

(* C26: choosing a reason, undoing, or the commit firing for one item      *)
(* leaves the pending entry, the delayed tasks and the recorded votes of   *)
(* every other item unchanged, in every interleaving; a step that acts on  *)
(* no item changes none of them.                                           *)
C26_ItemsIndependent ==
    [][ /\ \A t \in FeedbackItems :
              ActsOn(t) => \A u \in FeedbackItems \ { t } : ItemView(u)' = ItemView(u)
        /\ (\A t \in FeedbackItems : ~ ActsOn(t)) =>
              \A u \in FeedbackItems : ItemView(u)' = ItemView(u) ]_vars

(* the vote of one item is committed, its task suspended in the edit that  *)
(* removes the undo control, while the other item has its own pending      *)
(* entry and sleeping task                                                 *)
C26_Witness ==
    \E k, j \in DOMAIN tasks :
       /\ tasks[k].tweet_id # tasks[j].tweet_id
       /\ tasks[k].state = "editing"
       /\ tasks[k].recorded = "newest"
       /\ tasks[j].state = "sleeping"
       /\ tasks[k].tweet_id \in DOMAIN pending_feedback
       /\ tasks[j].tweet_id \in DOMAIN pending_feedback
       /\ pending_feedback[tasks[j].tweet_id].task = j
       /\ \E i \in DOMAIN feedback : feedback[i].tweet_id = tasks[k].tweet_id

(* C27 as stated: every score the parser produces, and every score stored  *)
(* on a tweet and compared with a threshold, is a number from 0 to 100,    *)
(* whatever the scorer returned.                                           *)
C27_ScoresInRange ==
    (probe.done /\ probe.raised = "none") =>
       /\ \A i \in DOMAIN probe.scores : probe.scores[i].score \in 0 .. 100
       /\ \A id \in DOMAIN probe.tweets :
             "filter_score" \in DOMAIN probe.tweets[id] =>
                probe.tweets[id].filter_score \in 0 .. 100

(* C28 as stated: under fair scheduling every entry of the pending-vote    *)
(* map is eventually removed from the map, also when a call that updates   *)
(* the message controls fails.                                             *)
C28_EntryEventuallyDestroyed ==
    \A t \in FeedbackItems :
       (t \in DOMAIN pending_feedback) ~> (t \notin DOMAIN pending_feedback)

(* C29 as stated: a tweet is marked as sent with message id m only if the  *)
(* send of that very tweet succeeded and returned m; a tweet whose send    *)
(* failed is never marked as sent.                                         *)
C29_MarkedOnlyIfSent ==
    \A id \in DOMAIN tweets_table :
       tweets_table[id].telegram_message_id # None =>
          /\ id \in channel
          /\ Val(tweets_table[id].telegram_message_id) = TelegramMessageId(id)

(* the tweets whose message was sent in this step of the digest *)
DeliveredNow ==
    { id \in SeqToSet(run.filtered_tweets) :
         TelegramMessageId(id) \in SeqToSet(run'.message_ids) }

(* C30: over any sequence of runs, also when a run starts while an earlier *)
(* one waits in its digest, no tweet is delivered more than once: a digest *)
(* holds no tweet twice and delivers no tweet that was delivered before.   *)
C30_DeliveredOnce ==
    [][ (run.pc = "send" /\ run'.pc = "mark" /\ suspended' = suspended) =>
           /\ \A i, j \in DOMAIN run.filtered_tweets :
                 i # j => run.filtered_tweets[i] # run.filtered_tweets[j]
           /\ DeliveredNow \cap channel = { }
           /\ channel' = channel \cup DeliveredNow ]_vars

(* a run delivered a tweet while a second run, started during that         *)
(* delivery, had fetched the same tweet, dropped it as a duplicate and     *)
(* gone on to its own digest                                               *)
C30_Witness ==
    /\ suspended # None
    /\ run.pc = "mark"
    /\ Val(suspended).run.pc = "send"
    /\ \E id \in SeqToSet(run.filtered_tweets) \cap channel :
          /\ id \in SeqToSet(Val(suspended).run.tweets)
          /\ id \notin SeqToSet(Val(suspended).run.new_tweets)

(* the tweets of the run whose stored row has the passing flag set *)
StoredPassing ==
    { id \in SeqToSet(run.tweets_for_filtering) :
        id \in DOMAIN tweets_table /\ tweets_table[id].filtered }

(* the stored flag of every submitted tweet is the decision of its tier *)
StoredFlagsTiered ==
    \A id \in SeqToSet(run.tweets_for_filtering) :
       /\ id \in DOMAIN tweets_table
       /\ tweets_table[id].filter_score # None
       /\ tweets_table[id].filtered
             <=> Val(tweets_table[id].filter_score) >=
                    RunTierThreshold(Lower(tweet_dicts[id].author_username))

C32_TierCountsCoverBatch ==
    TiersDecided =>
       stats.tier_breakdown.favorite + stats.tier_breakdown.muted
          + stats.tier_breakdown.default = Len(run.tweets_for_filtering)

(* deduplication, or deduplication and retweet suppression, ran in this    *)
(* run and left no tweet                                                   *)
NothingSurvives ==
    \/ "new" \in DOMAIN stats /\ run.new_tweets = << >>
    \/ "skipped_retweets" \in DOMAIN stats /\ run.tweets_for_filtering = << >>

(* C33: in any run the primary scoring call is made at most once (it is    *)
(* made only at the scoring step, where no call was made yet), and not at  *)
(* all when no tweet survives deduplication and retweet suppression: that  *)
(* run has returned with no error recorded, and no step of a run that made *)
(* no scoring call saves or delivers anything.                             *)
C33_ScoredAtMostOnce ==
    /\ [] ( /\ run.pc = "score" => run.scorer_input = None
            /\ NothingSurvives =>
                  /\ run.scorer_input = None
                  /\ run.pc = "returned"
                  /\ stats.errors = << >>
                  /\ stats.filtered = 0
                  /\ stats.sent = 0 )
    /\ [][ /\ run'.scorer_input # run.scorer_input =>
                 run.pc = "score" \/ run'.scorer_input = None
           /\ run'.scorer_input = None =>
                 tweets_table' = tweets_table /\ channel' = channel ]_vars

(* the second run fetched tweets, all of them already scored, and returned *)
(* without a scoring call; the first run had stored a tweet                *)
C33_Witness ==
    /\ run.number = 2
    /\ run.pc = "returned"
    /\ run.tweets # << >>
    /\ NothingSurvives
    /\ stats.skipped_duplicates = Len(run.tweets)
    /\ tweets_table # EmptyMap

(* a count of the statistics, 0 when the run returned before setting it *)
Count(key) == Get(stats, key, 0)

(* C34: at the end of every run that completes without error the          *)
(* statistics satisfy fetched = new + skipped_duplicates, new =            *)
(* skipped_retweets + the number of tweets submitted to the scorer,        *)
(* filtered <= that number, and sent <= filtered.                          *)
C34_StatsAddUp ==
    (run.pc = "returned" /\ stats.errors = << >>) =>
       /\ stats.fetched = Count("new") + Count("skipped_duplicates")
       /\ Count("new") = Count("skipped_retweets") + Len(run.tweets_for_filtering)
       /\ stats.filtered <= Len(run.tweets_for_filtering)
       /\ stats.sent <= stats.filtered

(* a second run completed: of its two tweets one was a duplicate, the      *)
(* other was submitted, passed and was sent                                *)
C34_Witness ==
    /\ run.number = 2
    /\ run.pc = "returned"
    /\ stats.errors = << >>
    /\ "completed_at" \in DOMAIN stats
    /\ stats.fetched = 2
    /\ stats.skipped_duplicates = 1
    /\ Len(run.tweets_for_filtering) = 1
    /\ stats.filtered = 1
    /\ stats.sent = 1

(* the client was called and raised in every one of the attempts made *)
AllFailed == \A i \in DOMAIN probe.outcomes : probe.outcomes[i] \notin Responses

(* C35: a fetch makes at most 3 attempts; it returns the first successful  *)
(* response without a further attempt; the delays between failed attempts  *)
(* grow; after the third failure in a row it raises that failure; and it   *)
(* always ends.                                                            *)
C35_BoundedRetry ==
    /\ [] ( /\ Len(probe.outcomes) <= 3
            /\ \A i \in DOMAIN probe.outcomes :
                  probe.outcomes[i] \in Responses =>
                     /\ i = Len(probe.outcomes)
                     /\ probe.pc = "returned"
                     /\ probe.result = Some(probe.outcomes[i])
            /\ Len(probe.waits) <= 2
            /\ \A i, j \in DOMAIN probe.waits : i < j => probe.waits[i] < probe.waits[j]
            /\ probe.pc = "attempt" => Len(probe.waits) = Len(probe.outcomes)
            /\ (Len(probe.outcomes) = 3 /\ AllFailed) =>
                  /\ probe.pc = "raised"
                  /\ probe.result = Some(probe.outcomes[3])
            /\ probe.pc = "returned" => ~ AllFailed
            /\ probe.pc = "raised" =>
                  /\ AllFailed
                  /\ probe.result = Some(probe.outcomes[Len(probe.outcomes)]) )
    /\ <> (probe.pc \in { "returned", "raised" })

(* three attempts failed with a TweepyException, after waits of 2 and 4    *)
(* seconds, and the third failure was raised                               *)
C35_Witness ==
    /\ probe.pc = "raised"
    /\ Len(probe.outcomes) = 3
    /\ \A i \in DOMAIN probe.outcomes : probe.outcomes[i] \in TweepyExceptions
    /\ probe.waits = << 2, 4 >>
    /\ probe.result = Some(probe.outcomes[3])

====
